---- MODULE Spec2Model ----
(***************************************************************************)
(* Memory blocks of the coding agent: the SQLite store (MemoryDatabase),   *)
(* the cache-holding MemoryManager and its mutation operations.            *)
(*                                                                         *)
(* Text values are sequences of one-character strings, so that length,     *)
(* concatenation, substring search and String.prototype.replace are        *)
(* computed character by character.  An optional field of a request        *)
(* (a TypeScript `field?: T`) is a set with at most one element: {} is     *)
(* `undefined`, {v} is the supplied value v.                               *)
(***************************************************************************)
EXTENDS Integers, Sequences, FiniteSets, TLC

VARIABLES
    memory_blocks,         \* rows of table memory_blocks
    memory_block_history,  \* rows of table memory_block_history, in insertion order
    uuids,                 \* number of block ids randomUUID() has handed out
    clock,                 \* the last timestamp new Date() returned to a write
    memoryCache,           \* per Manager: its sessionId and its memoryCache
    maxBlocks,             \* settings.memory?.maxBlocks: {} when not set
    pc,                    \* per Manager: the store write it is in the middle of
    toolCalls,             \* the tool calls of one assistant message, per call
    last                   \* the last Manager call: operation, inputs, outcome

vars == <<memory_blocks, memory_block_history, uuids, clock, memoryCache,
          maxBlocks, pc, toolCalls, last>>

-----------------------------------------------------------------------------
(* Bounds of the model and the input sets the operations draw from.        *)

\* Store writes (INSERT/UPDATE of a block row) in one behaviour; every write
\* reads a later timestamp, so this also bounds versions, ids and lengths.
MaxWrites == 2

Managers == {1, 2}
Labels == {"a", "b"}
LabelOrder == <<"a", "b">>

None == {}
Some(v) == {v}
Get(o) == CHOOSE x \in o : TRUE

NL == "\n"

\* what createBlock is called with: no value or "xx"; no charLimit (the
\* default applies) or 2; writable or read-only
CreateValues == {None, Some(<<"x", "x">>)}
CreateLimits == {None, Some(2)}
CreateFlags == {None, Some(TRUE)}

AppendContents == {<<>>, <<"x">>}
OldContents == {<<>>, <<"x">>}
NewContents == {<<>>, <<"$", "$">>}

-----------------------------------------------------------------------------
(* JavaScript helpers.                                                     *)

\* x || d for an optional string/sequence: undefined and "" are falsy
OrEmptySeq(o) == IF o = None THEN <<>> ELSE Get(o)
OrEmptyStr(o) == IF o = None THEN "" ELSE Get(o)
\* block.charLimit || 4000: undefined and 0 are falsy
DefaultCharLimit == 4000
OrDefaultLimit(o) == IF o = None \/ Get(o) = 0 THEN DefaultCharLimit ELSE Get(o)
\* block.readOnly ? 1 : 0, read back as row.readOnly === 1
Truthy(o) == o # None /\ Get(o) = TRUE
\* SQL COALESCE(?, column): a bound undefined is NULL
Coalesce(o, column) == IF o = None THEN column ELSE Get(o)

\* String.prototype.includes / indexOf: is `pat` at 1-based position i of s
MatchesAt(s, pat, i) ==
    /\ i >= 1
    /\ i + Len(pat) - 1 <= Len(s)
    /\ \A k \in 1..Len(pat) : s[i + k - 1] = pat[k]
Includes(s, pat) == \E i \in 1..(Len(s) + 1) : MatchesAt(s, pat, i)
IndexOf(s, pat) ==
    CHOOSE i \in 1..(Len(s) + 1) :
        /\ MatchesAt(s, pat, i)
        /\ \A j \in 1..(i - 1) : ~MatchesAt(s, pat, j)


\* GetSubstitution of String.prototype.replace(string, string): the pattern is
\* a string, so there are no captures and $1..$99, $< stay literal.
RECURSIVE GetSubstitution(_, _, _, _, _)
GetSubstitution(tpl, i, matched, before, after) ==
    IF i > Len(tpl) THEN <<>>
    ELSE IF tpl[i] = "$" /\ i < Len(tpl) /\ tpl[i + 1] \in {"$", "&", "`", "'"}
    THEN (CASE tpl[i + 1] = "$" -> <<"$">>
            [] tpl[i + 1] = "&" -> matched
            [] tpl[i + 1] = "`" -> before
            [] tpl[i + 1] = "'" -> after)
         \o GetSubstitution(tpl, i + 2, matched, before, after)
    ELSE <<tpl[i]>> \o GetSubstitution(tpl, i + 1, matched, before, after)

\* value.replace(oldContent, newContent) with both arguments strings: only
\* the first occurrence is replaced, the replacement is a template
JsReplace(s, pat, tpl) ==
    IF ~Includes(s, pat) THEN s
    ELSE LET p == IndexOf(s, pat)
             before == SubSeq(s, 1, p - 1)
             after == SubSeq(s, p + Len(pat), Len(s))
         IN  before \o GetSubstitution(tpl, 1, pat, before, after) \o after

-----------------------------------------------------------------------------
(* MemoryDatabase.  A database state is a record                           *)
(*   [blocks, history, uuids, clock];                                      *)
(* each method takes one and returns the next one with its return value.   *)
(* A block row has every column of memory_blocks but metadata (never       *)
(* supplied by the calls modelled here, so always NULL).  The SELECTs      *)
(* return a row without its session_id: that is a MemoryBlock.             *)

Db == [blocks |-> memory_blocks, history |-> memory_block_history,
       uuids |-> uuids, clock |-> clock]

\* new Date().toISOString() read by a write: later than every earlier one
Now(db) == db.clock + 1

LabelIndex(l) == CHOOSE i \in 1..Len(LabelOrder) : LabelOrder[i] = l

\* ... ORDER BY label: the rows of a set as a sequence sorted by label
RECURSIVE OrderByLabel(_)
OrderByLabel(rows) ==
    IF rows = {} THEN <<>>
    ELSE LET r == CHOOSE x \in rows :
                    \A y \in rows :
                        \/ LabelIndex(x.label) < LabelIndex(y.label)
                        \/ (x.label = y.label /\ x.id <= y.id)
         IN  <<r>> \o OrderByLabel(rows \ {r})

\* the columns the SELECTs name: every one but session_id
Selected(row) ==
    [id |-> row.id, label |-> row.label, value |-> row.value,
     description |-> row.description, charLimit |-> row.charLimit,
     readOnly |-> row.readOnly, hidden |-> row.hidden,
     createdAt |-> row.createdAt, updatedAt |-> row.updatedAt,
     version |-> row.version]

\* faulty variant: ORDER BY label DESC
DbGetBlocksForSession_Descending(db, sessionId) ==
    LET rows == OrderByLabel({Selected(b) : b \in {r \in db.blocks : r.session_id = sessionId}})
    IN  [i \in 1..Len(rows) |-> rows[Len(rows) + 1 - i]]

\* getBlocksForSession: ... WHERE session_id = ? ORDER BY label
DbGetBlocksForSession(db, sessionId) ==
    OrderByLabel({Selected(b) : b \in {r \in db.blocks : r.session_id = sessionId}})

\* getBlockByLabel: {} when there is no such row
DbGetBlockByLabel(db, sessionId, label) ==
    {Selected(b) : b \in {r \in db.blocks : r.session_id = sessionId /\ r.label = label}}

\* getBlock (by id)
DbGetBlock(db, id) == {Selected(b) : b \in {r \in db.blocks : r.id = id}}

\* faulty variant: the row is given the version after the one passed
DbCreateHistoryEntry_NextVersion(history, blockId, label, value, version, createdAt) ==
    Append(history, [blockId |-> blockId, label |-> label, value |-> value,
                     version |-> version + 1, createdAt |-> createdAt,
                     createdBy |-> "agent"])

\* createHistoryEntry
DbCreateHistoryEntry(history, blockId, label, value, version, createdAt) ==
    Append(history, [blockId |-> blockId, label |-> label, value |-> value,
                     version |-> version, createdAt |-> createdAt,
                     createdBy |-> "agent"])

\* UNIQUE(session_id, label): does the INSERT of this label violate it
UniqueViolated(db, sessionId, label) ==
    \E b \in db.blocks : b.session_id = sessionId /\ b.label = label

\* createBlock: INSERT the row with version 1, then the first history row.
\* A violated UNIQUE constraint makes stmt.run throw before anything is
\* written.
InitialVersion == 1
\* faulty variant: the version goes on counting over the blocks created
InsertedRow_VersionGoesOn(id, sessionId, req, now) ==
    [id |-> id,
     session_id |-> sessionId,
     label |-> req.label,
     value |-> OrEmptySeq(req.value),
     description |-> OrEmptyStr(req.description),
     charLimit |-> OrDefaultLimit(req.charLimit),
     readOnly |-> Truthy(req.readOnly),
     hidden |-> Truthy(req.hidden),
     createdAt |-> now,
     updatedAt |-> now,
     version |-> id]

\* the row createBlock inserts
InsertedRow(id, sessionId, req, now) ==
    [id |-> id,
     session_id |-> sessionId,
     label |-> req.label,
     value |-> OrEmptySeq(req.value),
     description |-> OrEmptyStr(req.description),
     charLimit |-> OrDefaultLimit(req.charLimit),
     readOnly |-> Truthy(req.readOnly),
     hidden |-> Truthy(req.hidden),
     createdAt |-> now,
     updatedAt |-> now,
     version |-> InitialVersion]

DbCreateBlock(db, sessionId, req) ==
    IF UniqueViolated(db, sessionId, req.label)
    THEN [db |-> db, threw |-> TRUE, block |-> None]
    ELSE
    LET id == db.uuids + 1
        now == Now(db)
        row == InsertedRow(id, sessionId, req, now)
        db2 == [blocks |-> db.blocks \cup {row},
                history |-> DbCreateHistoryEntry(db.history, id, req.label,
                                OrEmptySeq(req.value), InitialVersion, now),
                uuids |-> id,
                clock |-> now]
    IN  [db |-> db2, threw |-> FALSE, block |-> DbGetBlock(db2, id)]

\* faulty variant: the version is counted down
NewVersion_Decrement(existing) == existing.version - 1

\* const newVersion = existing.version + 1
NewVersion(existing) == existing.version + 1

\* createHistoryEntry is called only "if (updates.value !== undefined)"
WritesHistory(updates) == updates.value # None

\* updateBlock: the UPDATE statement, then the history row for a value
\* faulty variant: the UPDATE also requires the version SELECTed before
UpdatedRows_IfVersionMatches(rows, sessionId, label, updates, now, newVersion) ==
    LET Set(b) == [b EXCEPT
                     !.value = Coalesce(updates.value, @),
                     !.updatedAt = now,
                     !.version = newVersion]
    IN  {IF b.session_id = sessionId /\ b.label = label /\ b.version = newVersion - 1
         THEN Set(b) ELSE b : b \in rows}

\* the UPDATE statement: SET ... WHERE session_id = ? AND label = ?
UpdatedRows(rows, sessionId, label, updates, now, newVersion) ==
    LET Set(b) == [b EXCEPT
                     !.value = Coalesce(updates.value, @),
                     !.description = Coalesce(updates.description, @),
                     !.charLimit = Coalesce(updates.charLimit, @),
                     !.readOnly = Coalesce(updates.readOnly, @),
                     !.hidden = Coalesce(updates.hidden, @),
                     !.updatedAt = now,
                     !.version = newVersion]
    IN  {IF b.session_id = sessionId /\ b.label = label THEN Set(b) ELSE b : b \in rows}

DbUpdateBlock(db, sessionId, label, updates) ==
    IF DbGetBlockByLabel(db, sessionId, label) = {}
    THEN [db |-> db, block |-> None]
    ELSE
    LET existing == Get(DbGetBlockByLabel(db, sessionId, label))
        now == Now(db)
        newVersion == NewVersion(existing)
        db2 == [blocks |-> UpdatedRows(db.blocks, sessionId, label, updates,
                                       now, newVersion),
                history |-> IF WritesHistory(updates)
                            THEN DbCreateHistoryEntry(db.history, existing.id, label,
                                     Get(updates.value), newVersion, now)
                            ELSE db.history,
                uuids |-> db.uuids,
                clock |-> now]
    IN  [db |-> db2, block |-> DbGetBlockByLabel(db2, sessionId, label)]

\* faulty variant: the history rows of the deleted block stay
DbDeleteBlock_NoCascade(db, sessionId, label) ==
    [db |-> [db EXCEPT !.blocks = {b \in @ : ~(b.session_id = sessionId /\ b.label = label)}],
     changed |-> \E b \in db.blocks : b.session_id = sessionId /\ b.label = label]

\* deleteBlock: DELETE FROM memory_blocks; FOREIGN KEY ... ON DELETE CASCADE
\* removes the history rows of the deleted block
DbDeleteBlock(db, sessionId, label) ==
    LET gone == {b.id : b \in DbGetBlockByLabel(db, sessionId, label)}
        Keep(h) == h.blockId \notin gone
    IN  [db |-> [db EXCEPT !.blocks = {b \in @ : ~(b.session_id = sessionId /\ b.label = label)},
                           !.history = SelectSeq(@, Keep)],
         changed |-> gone # {}]

\* getBlockHistory: ORDER BY version DESC of the rows of the labelled block
RECURSIVE OrderByVersionDesc(_)
OrderByVersionDesc(rows) ==
    IF rows = <<>> THEN <<>>
    ELSE LET i == CHOOSE k \in 1..Len(rows) :
                    \A j \in 1..Len(rows) : rows[k].version >= rows[j].version
             rest == [j \in 1..(Len(rows) - 1) |-> IF j < i THEN rows[j] ELSE rows[j + 1]]
         IN  <<rows[i]>> \o OrderByVersionDesc(rest)

DbGetBlockHistory(db, sessionId, label) ==
    IF DbGetBlockByLabel(db, sessionId, label) = {} THEN <<>>
    ELSE LET id == Get(DbGetBlockByLabel(db, sessionId, label)).id
             Mine(h) == h.blockId = id
         IN  OrderByVersionDesc(SelectSeq(db.history, Mine))

-----------------------------------------------------------------------------
(* MemoryManager.  Each method takes the database state and this Manager's *)
(* cache and returns both, updated, with the outcome of the call:          *)
(*   outcome "ok"        a block was returned (field block)                *)
(*           "undefined" the method returned undefined                     *)
(*           "true", "false"  deleteBlock's return value                   *)
(*           otherwise   the Error that was thrown.                        *)

\* the session ids the Managers are constructed with
SessionIds == <<"session-1", "session-2">>

\* faulty variant: the Manager keeps the session id it is given
Construct_SessionScoped(sessionId) ==
    [sessionId |-> sessionId, loaded |-> FALSE, blocks |-> <<>>]

\* constructor: this.sessionId = "global" whatever sessionId is passed, and
\* memoryCache = null
Construct(sessionId) ==
    [sessionId |-> "global", loaded |-> FALSE, blocks |-> <<>>]

\* this.memoryCache = null
NullCache(cache) == [cache EXCEPT !.loaded = FALSE, !.blocks = <<>>]

\* load: this.memoryCache = this.db.getSessionMemory(this.sessionId).blocks
Load(db, cache) ==
    [cache EXCEPT !.loaded = TRUE,
                  !.blocks = DbGetBlocksForSession(db, cache.sessionId)]

\* if (!this.memoryCache) this.load()
\* faulty variant: every call reloads
Loaded_Always(db, cache) == Load(db, cache)

Loaded(db, cache) == IF cache.loaded THEN cache ELSE Load(db, cache)

\* this.memoryCache.find((b) => b.label === label), on a loaded cache
Find(cache, label) ==
    IF \E i \in 1..Len(cache.blocks) : cache.blocks[i].label = label
    THEN LET i == CHOOSE k \in 1..Len(cache.blocks) :
                    /\ cache.blocks[k].label = label
                    /\ \A j \in 1..(k - 1) : cache.blocks[j].label # label
         IN  Some(cache.blocks[i])
    ELSE None

\* faulty variant: the cache is left as it was
CacheUpdate_Skipped(cache, block) == cache

\* faulty variant: the block is always pushed
CacheUpdate_PushAlways(cache, block) ==
    IF ~cache.loaded THEN cache
    ELSE [cache EXCEPT !.blocks = Append(@, block)]

\* cacheUpdate: replace the entry with the block's id, or push the block
CacheUpdate(cache, block) ==
    IF ~cache.loaded THEN cache
    ELSE IF \E i \in 1..Len(cache.blocks) : cache.blocks[i].id = block.id
    THEN LET i == CHOOSE k \in 1..Len(cache.blocks) :
                    /\ cache.blocks[k].id = block.id
                    /\ \A j \in 1..(k - 1) : cache.blocks[j].id # block.id
         IN  [cache EXCEPT !.blocks[i] = block]
    ELSE [cache EXCEPT !.blocks = Append(@, block)]

\* a call that returns: the store and cache it leaves, what it returns
Outcome(db, cache, outcome, block) ==
    [db |-> db, cache |-> cache, outcome |-> outcome, block |-> block,
     message |-> <<>>]

\* throw new Error(message): the store and cache are as they were at the throw
Throw(db, cache, outcome, message) ==
    [db |-> db, cache |-> cache, outcome |-> outcome, block |-> None,
     message |-> message]

\* the kinds of outcome that are a thrown Error
Thrown == {"DuplicateLabel", "CharLimitExceeded", "ReadOnly", "ContentNotFound",
           "SqliteConstraint"}

\* the messages of the Errors the Manager throws, as the template's pieces
DuplicateMessage(label) == <<"Block with label \"", label, "\" already exists">>
LimitMessage(length, limit, label) ==
    <<"Value length (", ToString(length), ") exceeds charLimit (",
      ToString(limit), ") for block \"", label, "\"">>
ReadOnlyMessage(label, verb) ==
    <<"Block \"", label, "\" is read-only and cannot be ", verb>>
ContentNotFoundMessage(label) == <<"Old content not found in block \"", label, "\"">>
\* better-sqlite3's message for the UNIQUE(session_id, label) constraint
ConstraintMessage ==
    <<"UNIQUE constraint failed: memory_blocks.session_id, memory_blocks.label">>

NoUpdates == [value |-> None, description |-> None, charLimit |-> None,
              readOnly |-> None, hidden |-> None]
ValueUpdate(v) == [NoUpdates EXCEPT !.value = Some(v)]

\* faulty variant: the duplicate check is left out
LabelTaken_Never(cache, label) == FALSE

\* createBlock's "Check for duplicate label": if (this.getBlock(block.label))
LabelTaken(cache, label) == Find(cache, label) # None

\* faulty variant: the value of a new block is not checked
CreateExceeds_Never(req) == FALSE

\* createBlock's "Validate value length against charLimit"
CreateExceeds(req) == Len(OrEmptySeq(req.value)) > OrDefaultLimit(req.charLimit)

\* createBlock
MgrCreateBlock(db, cache0, req) ==
    LET cache == Loaded(db, cache0)
    IN  IF LabelTaken(cache, req.label)
        THEN Throw(db, cache, "DuplicateLabel", DuplicateMessage(req.label))
        ELSE IF CreateExceeds(req)
        THEN Throw(db, cache, "CharLimitExceeded",
                   LimitMessage(Len(OrEmptySeq(req.value)),
                                OrDefaultLimit(req.charLimit), req.label))
        ELSE LET r == DbCreateBlock(db, cache.sessionId, req)
             IN  IF r.threw
                 THEN Throw(db, cache, "SqliteConstraint", ConstraintMessage)
                 ELSE Outcome(r.db, CacheUpdate(cache, Get(r.block)), "ok", r.block)

\* faulty variant: the value is checked against a supplied limit only
UpdateExceeds_SuppliedLimitOnly(existing, updates) ==
    /\ updates.value # None
    /\ updates.charLimit # None
    /\ Len(Get(updates.value)) > Get(updates.charLimit)

\* updateBlock's "Validate value length": the if / else-if of lines 97-105
UpdateExceeds(existing, updates) ==
    IF /\ updates.value # None
       /\ updates.charLimit # None
       /\ Len(Get(updates.value)) > Get(updates.charLimit)
    THEN TRUE
    ELSE /\ updates.value # None
         /\ Len(Get(updates.value)) > existing.charLimit

\* the limit the thrown message shows: the supplied one in the if branch
\* (line 99), the block's in the else-if branch (line 103)
ShownLimit(existing, updates) ==
    IF /\ updates.charLimit # None
       /\ Len(Get(updates.value)) > Get(updates.charLimit)
    THEN Get(updates.charLimit)
    ELSE existing.charLimit

\* faulty variant: the read-only check is left out
IsReadOnly_Never(block) == FALSE

\* the "Check read-only" of updateBlock, deleteBlock, appendBlock, replaceBlock
IsReadOnly(block) == block.readOnly

\* updateBlock
MgrUpdateBlock(db, cache0, label, updates) ==
    LET cache == Loaded(db, cache0)
        found == Find(cache, label)
    IN  IF found = None
        THEN Outcome(db, cache, "undefined", None)
        ELSE IF IsReadOnly(Get(found))
        THEN Throw(db, cache, "ReadOnly", ReadOnlyMessage(label, "modified"))
        ELSE IF UpdateExceeds(Get(found), updates)
        THEN Throw(db, cache, "CharLimitExceeded",
                   LimitMessage(Len(Get(updates.value)),
                                ShownLimit(Get(found), updates), label))
        ELSE LET r == DbUpdateBlock(db, cache.sessionId, label, updates)
             IN  IF r.block = None
                 THEN Outcome(r.db, cache, "undefined", None)
                 ELSE Outcome(r.db, CacheUpdate(cache, Get(r.block)), "ok", r.block)

\* deleteBlock
MgrDeleteBlock(db, cache0, label) ==
    LET cache == Loaded(db, cache0)
        found == Find(cache, label)
        Other(b) == b.label # label
    IN  IF found = None
        THEN Outcome(db, cache, "false", None)
        ELSE IF IsReadOnly(Get(found))
        THEN Throw(db, cache, "ReadOnly", ReadOnlyMessage(label, "deleted"))
        ELSE LET r == DbDeleteBlock(db, cache.sessionId, label)
             IN  IF r.changed
                 THEN Outcome(r.db, [cache EXCEPT !.blocks = SelectSeq(@, Other)],
                              "true", None)
                 ELSE Outcome(r.db, cache, "false", None)

\* faulty variant: the separator is added to an empty value too
AppendValue_AlwaysNewline(value, content) == value \o <<NL>> \o content

\* block.value + (block.value ? "\n" : "") + content
AppendValue(value, content) ==
    value \o (IF value # <<>> THEN <<NL>> ELSE <<>>) \o content

\* appendBlock
MgrAppendBlock(db, cache0, label, content) ==
    LET cache == Loaded(db, cache0)
        found == Find(cache, label)
    IN  IF found = None
        THEN Outcome(db, cache, "undefined", None)
        ELSE IF IsReadOnly(Get(found))
        THEN Throw(db, cache, "ReadOnly", ReadOnlyMessage(label, "modified"))
        ELSE MgrUpdateBlock(db, cache, label,
                            ValueUpdate(AppendValue(Get(found).value, content)))

\* faulty variant: the presence of oldContent is not checked
ContentMissing_Never(value, oldContent) == FALSE

\* if (oldContent && !block.value.includes(oldContent))
ContentMissing(value, oldContent) ==
    oldContent # <<>> /\ ~Includes(value, oldContent)

\* faulty variant: an empty newContent is taken for a missing one
ReplaceValue_FalsyNew(value, oldContent, newContent) ==
    IF oldContent # <<>> THEN JsReplace(value, oldContent, newContent)
    ELSE IF newContent # <<>> THEN newContent ELSE value

\* oldContent ? block.value.replace(oldContent, newContent) : newContent
ReplaceValue(value, oldContent, newContent) ==
    IF oldContent # <<>> THEN JsReplace(value, oldContent, newContent)
    ELSE newContent

\* replaceBlock
MgrReplaceBlock(db, cache0, label, oldContent, newContent) ==
    LET cache == Loaded(db, cache0)
        found == Find(cache, label)
    IN  IF found = None
        THEN Outcome(db, cache, "undefined", None)
        ELSE IF IsReadOnly(Get(found))
        THEN Throw(db, cache, "ReadOnly", ReadOnlyMessage(label, "modified"))
        ELSE IF ContentMissing(Get(found).value, oldContent)
        THEN Throw(db, cache, "ContentNotFound", ContentNotFoundMessage(label))
        ELSE MgrUpdateBlock(db, cache, label,
                 ValueUpdate(ReplaceValue(Get(found).value, oldContent, newContent)))

-----------------------------------------------------------------------------
(* The compiler (compiler.ts).  A compiled text is a sequence of atoms: a   *)
(* character of a value (a one-character string, "\n" among them), or a     *)
(* piece of a template that holds no newline (a tag, a label, a number in   *)
(* decimal).  The array `s` of compileMemory is a sequence of such texts,   *)
(* joined with "\n" at the end.                                            *)

\* Array.prototype.join(sep) on an array of texts
RECURSIVE Join(_, _)
Join(arr, sep) ==
    IF Len(arr) = 0 THEN <<>>
    ELSE IF Len(arr) = 1 THEN arr[1]
    ELSE arr[1] \o <<sep>> \o Join(Tail(arr), sep)

\* String.prototype.split(sep): "" gives [""], a trailing sep a last ""
RECURSIVE Split(_, _)
Split(text, sep) ==
    IF \A i \in 1..Len(text) : text[i] # sep THEN <<text>>
    ELSE LET p == CHOOSE i \in 1..Len(text) :
                    /\ text[i] = sep
                    /\ \A j \in 1..(i - 1) : text[j] # sep
         IN  <<SubSeq(text, 1, p - 1)>> \o Split(SubSeq(text, p + 1, Len(text)), sep)

\* a string of the block (description) as a text: "" is the empty text
StrText(str) == IF str = "" THEN <<>> ELSE <<str>>

\* the options of compileMemory: undefined, or an object whose llmConfig is
\* undefined or names the model endpoint type
NoLlmConfig == Some([llmConfig |-> None])
LlmConfig(type) == Some([llmConfig |-> Some([modelEndpointType |-> type])])

\* faulty variant: lines are numbered whenever an llmConfig is given
ShouldUseLineNumbers_AnyConfig(options) ==
    options # None /\ Get(options).llmConfig # None

\* shouldUseLineNumbers
ShouldUseLineNumbers(options) ==
    IF options = None \/ Get(options).llmConfig = None THEN FALSE
    ELSE IF Get(Get(options).llmConfig).modelEndpointType # "anthropic" THEN FALSE
    ELSE TRUE

\* the pieces of CORE_MEMORY_LINE_NUMBER_WARNING (one line)
CORE_MEMORY_LINE_NUMBER_WARNING ==
    <<"IMPORTANT: The <value> field below contains a line-numbered memory block. When editing this block, you must preserve all line numbers exactly as they appear. Do not remove, renumber, or modify the line number prefixes (e.g., '1→ ', '2→ ', '3→ '). Only modify the content after the arrow and space.">>

\* the prefix `${i + 1}→ ` of line i (counted from 1 here)
LinePrefix(i) == <<ToString(i), "→", " ">>

\* faulty variant: the lines are numbered from 0
RenderWithLineNumbers_ZeroBased(text) ==
    IF text = <<>> THEN <<>>
    ELSE LET lines == Split(text, NL)
         IN  [i \in 1..Len(lines) |-> LinePrefix(i - 1) \o lines[i]]

\* renderWithLineNumbers: no line at all for an empty text
RenderWithLineNumbers(text) ==
    IF text = <<>> THEN <<>>
    ELSE LET lines == Split(text, NL)
         IN  [i \in 1..Len(lines) |-> LinePrefix(i) \o lines[i]]

OpenTag(label) == <<"<", label, ">">>
CloseTag(label) == <<"</", label, ">">>

\* faulty variant: the read_only line is pushed for every block
MetadataLines_AlwaysReadOnly(block) ==
    << <<"<metadata>">>,
       <<"- read_only=true">>,
       <<"- chars_current=", ToString(Len(block.value))>>,
       <<"- chars_limit=", ToString(block.charLimit)>>,
       <<"</metadata>">> >>

\* the metadata section: from <metadata> to </metadata>
MetadataLines(block) ==
    << <<"<metadata>">> >>
    \o (IF block.readOnly THEN << <<"- read_only=true">> >> ELSE <<>>)
    \o << <<"- chars_current=", ToString(Len(block.value))>>,
          <<"- chars_limit=", ToString(block.charLimit)>>,
          <<"</metadata>">> >>

\* the warning section: one array element holding three lines
WarningLines(useLineNumbers) ==
    IF useLineNumbers
    THEN << <<"<warning>", NL>> \o CORE_MEMORY_LINE_NUMBER_WARNING
            \o <<NL, "</warning>">> >>
    ELSE <<>>

\* what the loop body pushes for a block that is not hidden, but the separator
RenderBlock(block, useLineNumbers) ==
    << OpenTag(block.label),
       <<"<description>">>,
       StrText(block.description),
       <<"</description>">> >>
    \o MetadataLines(block)
    \o WarningLines(useLineNumbers)
    \o << <<"<value>">> >>
    \o (IF useLineNumbers THEN RenderWithLineNumbers(block.value)
                          ELSE <<block.value>>)
    \o << <<"</value>">>, CloseTag(block.label) >>

\* faulty variant: hidden blocks are rendered too
Skipped_Never(block) == FALSE

\* "Skip hidden blocks": if (block.hidden) continue
Skipped(block) == block.hidden

\* the for loop from index idx on (1-based: idx < blocks.length - 1 of the
\* code is idx < Len(blocks) here)
RECURSIVE RenderBlocks(_, _, _)
RenderBlocks(blocks, idx, useLineNumbers) ==
    IF idx > Len(blocks) THEN <<>>
    ELSE IF Skipped(blocks[idx]) THEN RenderBlocks(blocks, idx + 1, useLineNumbers)
    ELSE RenderBlock(blocks[idx], useLineNumbers)
         \o (IF idx < Len(blocks) THEN << <<>> >> ELSE <<>>)
         \o RenderBlocks(blocks, idx + 1, useLineNumbers)

\* compileMemory
CompileMemory(blocks, options) ==
    IF Len(blocks) = 0 THEN <<>>
    ELSE Join(<< <<"<memory_blocks>">>,
                 <<"The following memory blocks are currently engaged in your core memory unit:",
                   NL>> >>
              \o RenderBlocks(blocks, 1, ShouldUseLineNumbers(options))
              \o << <<"</memory_blocks>">> >>,
              NL)

\* faulty variant: hidden blocks are kept
Compiled_All(block) == TRUE

\* getCompiledMemoryBlocks: .filter((b) => !b.hidden)
Compiled(block) == ~block.hidden

\* getCompiledMemoryBlocks
GetCompiledMemoryBlocks(blocks) ==
    LET kept == SelectSeq(blocks, Compiled)
    IN  [i \in 1..Len(kept) |->
            [label |-> kept[i].label,
             description |-> kept[i].description,
             metadata |-> [charsCurrent |-> Len(kept[i].value),
                           charsLimit |-> kept[i].charLimit,
                           readOnly |-> kept[i].readOnly],
             value |-> kept[i].value]]

\* compiled.length: the characters of a text, atom by atom
RECURSIVE TextLength(_)
TextLength(text) ==
    IF text = <<>> THEN 0 ELSE Len(Head(text)) + TextLength(Tail(text))

\* Math.ceil(n / 4) for a length n
CharsPerToken == 4
CeilDiv(n, d) == (n + d - 1) \div d

\* estimateCompiledMemoryTokens: compiles without options
EstimateCompiledMemoryTokens(blocks) ==
    CeilDiv(TextLength(CompileMemory(blocks, None)), CharsPerToken)

-----------------------------------------------------------------------------
(* MemoryManager reads.                                                    *)

\* faulty variant: a label that is not found is created
MgrGetBlock_Creates(db, cache0, label) ==
    IF Find(Loaded(db, cache0), label) = None
    THEN MgrCreateBlock(db, cache0,
             [label |-> label, value |-> None, description |-> None,
              charLimit |-> None, readOnly |-> None, hidden |-> None])
    ELSE Outcome(db, Loaded(db, cache0), "ok", Find(Loaded(db, cache0), label))

\* getBlock: loads the cache when it is null, then finds the label
MgrGetBlock(db, cache0, label) ==
    LET cache == Loaded(db, cache0)
    IN  Outcome(db, cache, IF Find(cache, label) = None THEN "undefined" ELSE "ok",
                Find(cache, label))

\* getBlocks: loads the cache when it is null; returns its blocks
MgrGetBlocks(db, cache0) == Loaded(db, cache0).blocks

\* listBlockLabels
MgrListBlockLabels(db, cache0) ==
    [i \in 1..Len(MgrGetBlocks(db, cache0)) |-> MgrGetBlocks(db, cache0)[i].label]

\* compile
MgrCompile(db, cache0, options) == CompileMemory(MgrGetBlocks(db, cache0), options)

-----------------------------------------------------------------------------
(* The agent tools (tools.ts).  A tool call returns what the Manager call   *)
(* it makes returns, with the tool result in field result, a record        *)
(*   [raised, text, details]:                                              *)
(* raised tells that execute threw instead of returning; text is           *)
(* content[0].text; details has every key of the three shapes of details,  *)
(* each absent ({}) or present.                                            *)

NoDetails == [error |-> None, label |-> None, newLength |-> None, limit |-> None]

\* the success result of memory_append / memory_replace
SuccessResult(verb, label, block) ==
    [raised |-> FALSE,
     text |-> <<"Successfully ", verb, " '", label, "'. Block now contains ",
                ToString(Len(block.value)), "/", ToString(block.charLimit),
                " characters.">>,
     details |-> [NoDetails EXCEPT !.label = Some(label),
                                   !.newLength = Some(Len(block.value)),
                                   !.limit = Some(block.charLimit)]]

\* faulty variant: the not-found result does not name the label
NotFoundResult_Anonymous(label) ==
    [raised |-> FALSE,
     text |-> <<"Error: Memory block not found.">>,
     details |-> [NoDetails EXCEPT !.error = Some(<<"Block not found">>)]]

\* the result for `if (!block)`
NotFoundResult(label) ==
    [raised |-> FALSE,
     text |-> <<"Error: Memory block '", label,
                "' not found. Use memory_list to see available blocks.">>,
     details |-> [NoDetails EXCEPT !.error = Some(<<"Block not found">>)]]

\* faulty variant: the Error is not caught
Caught_Propagate(prefix, message) ==
    [raised |-> TRUE, text |-> <<>>, details |-> NoDetails]

\* the catch clause: every Error the Manager throws is an Error instance, so
\* the text and details.error carry error.message
Caught(prefix, message) ==
    [raised |-> FALSE,
     text |-> <<prefix>> \o message,
     details |-> [NoDetails EXCEPT !.error = Some(message)]]

\* the body of execute after the Manager call returned or threw
ToolResult(out, label, verb, prefix) ==
    IF out.outcome \in Thrown THEN Caught(prefix, out.message)
    ELSE IF out.block = None THEN NotFoundResult(label)
    ELSE SuccessResult(verb, label, Get(out.block))

\* memory_append
MemoryAppendTool(db, cache, label, content) ==
    LET out == MgrAppendBlock(db, cache, label, content)
    IN  [db |-> out.db, cache |-> out.cache, outcome |-> out.outcome,
         block |-> out.block,
         result |-> ToolResult(out, label, "appended to",
                               "Error appending to memory: ")]

\* memory_replace: old_content is optional, old_content || "" is passed on
MemoryReplaceTool(db, cache, label, old_content, new_content) ==
    LET out == MgrReplaceBlock(db, cache, label, OrEmptySeq(old_content), new_content)
    IN  [db |-> out.db, cache |-> out.cache, outcome |-> out.outcome,
         block |-> out.block,
         result |-> ToolResult(out, label, "updated",
                               "Error updating memory: ")]

\* faulty variant: the read-only mark is left out
ListLine_NoReadOnlyMark(b) ==
    Join(<< <<b.label, ":">> >>
         \o (IF b.description # "" THEN << <<b.description>> >> ELSE <<>>)
         \o << <<"(", ToString(Len(b.value)), "/", ToString(b.charLimit), " chars)">> >>,
         " ")

\* memory_list: one line per cached block
ListLine(b) ==
    Join(<< <<b.label, ":">> >>
         \o (IF b.description # "" THEN << <<b.description>> >> ELSE <<>>)
         \o << <<"(", ToString(Len(b.value)), "/", ToString(b.charLimit), " chars)">> >>
         \o (IF b.readOnly THEN << <<"[read-only]">> >> ELSE <<>>),
         " ")
ListSummary(blocks) == Join([i \in 1..Len(blocks) |-> ListLine(blocks[i])], NL)
MemoryListTool(db, cache) ==
    LET blocks == MgrGetBlocks(db, cache)
    IN  [raised |-> FALSE,
         text |-> IF ListSummary(blocks) = <<>>
                  THEN <<"No memory blocks available.">>
                  ELSE ListSummary(blocks),
         details |-> [i \in 1..Len(blocks) |->
                        [label |-> blocks[i].label,
                         description |-> blocks[i].description,
                         current |-> Len(blocks[i].value),
                         limit |-> blocks[i].charLimit]]]

-----------------------------------------------------------------------------
(* The state machine: one action per Manager call.                         *)

\* a Manager that is in no store write
Idle == [at |-> "idle"]

\* the tool calls the agent has been asked to run together: none
ToolCallIds == {1, 2}
NotCalled == [at |-> "none"]
NoToolCalls == [c \in ToolCallIds |-> NotCalled]

NoResult == [raised |-> FALSE, text |-> <<>>, details |-> NoDetails]

\* last: the operation, its inputs (label, updates, content, oldContent,
\* newContent of the Manager calls; old_content of memory_replace; blocks and
\* options of the compiler), the outcome and block of a Manager call, the
\* result of a tool call, and what a read returned
NoCall == [op |-> "none", mgr |-> 0, label |-> "", updates |-> NoUpdates,
           content |-> <<>>, oldContent |-> <<>>, newContent |-> <<>>,
           outcome |-> "", block |-> None,
           old_content |-> None, blocks |-> <<>>, options |-> None,
           result |-> NoResult, returned |-> <<>>]

Init ==
    /\ memory_blocks = {}
    /\ memory_block_history = <<>>
    /\ uuids = 0
    /\ clock = 0
    /\ memoryCache = [m \in Managers |-> Construct(SessionIds[m])]
    /\ maxBlocks = None
    /\ toolCalls = NoToolCalls
    /\ pc = [m \in Managers |-> Idle]
    /\ last = NoCall

\* the call returns: the store, Manager m's cache and the outcome are set
Return(m, out, call) ==
    /\ out.db.clock <= MaxWrites
    /\ memory_blocks' = out.db.blocks
    /\ memory_block_history' = out.db.history
    /\ uuids' = out.db.uuids
    /\ clock' = out.db.clock
    /\ memoryCache' = [memoryCache EXCEPT ![m] = out.cache]
    /\ UNCHANGED <<maxBlocks, toolCalls, pc>>
    /\ last' = [call EXCEPT !.mgr = m, !.outcome = out.outcome, !.block = out.block]

CreateBlock(m, req) ==
    /\ m \in Managers
    /\ Return(m, MgrCreateBlock(Db, memoryCache[m], req),
              [NoCall EXCEPT !.op = "createBlock", !.label = req.label,
                             !.updates = [value |-> req.value,
                                          description |-> req.description,
                                          charLimit |-> req.charLimit,
                                          readOnly |-> req.readOnly,
                                          hidden |-> req.hidden]])

UpdateBlock(m, label, updates) ==
    /\ m \in Managers
    /\ Return(m, MgrUpdateBlock(Db, memoryCache[m], label, updates),
              [NoCall EXCEPT !.op = "updateBlock", !.label = label, !.updates = updates])

DeleteBlock(m, label) ==
    /\ m \in Managers
    /\ Return(m, MgrDeleteBlock(Db, memoryCache[m], label),
              [NoCall EXCEPT !.op = "deleteBlock", !.label = label])

AppendBlock(m, label, content) ==
    /\ m \in Managers
    /\ Return(m, MgrAppendBlock(Db, memoryCache[m], label, content),
              [NoCall EXCEPT !.op = "appendBlock", !.label = label, !.content = content])

ReplaceBlock(m, label, oldContent, newContent) ==
    /\ m \in Managers
    /\ Return(m, MgrReplaceBlock(Db, memoryCache[m], label, oldContent, newContent),
              [NoCall EXCEPT !.op = "replaceBlock", !.label = label,
                             !.oldContent = oldContent, !.newContent = newContent])

\* getBlocks: loads the cache when it is null
GetBlocks(m) ==
    /\ m \in Managers
    /\ Return(m, Outcome(Db, Loaded(Db, memoryCache[m]), "ok", None),
              [NoCall EXCEPT !.op = "getBlocks",
                             !.returned = MgrGetBlocks(Db, memoryCache[m])])

\* clearCache
ClearCache(m) ==
    /\ m \in Managers
    /\ Return(m, Outcome(Db, NullCache(memoryCache[m]), "ok", None),
              [NoCall EXCEPT !.op = "clearCache"])

\* getBlock
GetBlock(m, label) ==
    /\ m \in Managers
    /\ Return(m, MgrGetBlock(Db, memoryCache[m], label),
              [NoCall EXCEPT !.op = "getBlock", !.label = label])

\* listBlockLabels
ListBlockLabels(m) ==
    /\ m \in Managers
    /\ Return(m, Outcome(Db, Loaded(Db, memoryCache[m]), "ok", None),
              [NoCall EXCEPT !.op = "listBlockLabels",
                             !.returned = MgrListBlockLabels(Db, memoryCache[m])])

\* getBlockHistory: a query of the store, the cache is not touched
GetBlockHistory(m, label) ==
    /\ m \in Managers
    /\ Return(m, Outcome(Db, memoryCache[m], "ok", None),
              [NoCall EXCEPT !.op = "getBlockHistory", !.label = label,
                             !.returned = DbGetBlockHistory(Db, memoryCache[m].sessionId,
                                                            label)])

\* compile
Compile(m, options) ==
    /\ m \in Managers
    /\ Return(m, Outcome(Db, Loaded(Db, memoryCache[m]), "ok", None),
              [NoCall EXCEPT !.op = "compile", !.options = options,
                             !.returned = MgrCompile(Db, memoryCache[m], options)])

\* the tool memory_list
MemoryList(m) ==
    /\ m \in Managers
    /\ Return(m, Outcome(Db, Loaded(Db, memoryCache[m]), "ok", None),
              [NoCall EXCEPT !.op = "memory_list",
                             !.result = MemoryListTool(Db, memoryCache[m])])

\* the tool memory_append
MemoryAppend(m, label, content) ==
    /\ m \in Managers
    /\ Return(m, MemoryAppendTool(Db, memoryCache[m], label, content),
              [NoCall EXCEPT !.op = "memory_append", !.label = label,
                             !.content = content,
                             !.result = MemoryAppendTool(Db, memoryCache[m],
                                                         label, content).result])

\* the tool memory_replace
MemoryReplace(m, label, old_content, new_content) ==
    /\ m \in Managers
    /\ Return(m, MemoryReplaceTool(Db, memoryCache[m], label, old_content, new_content),
              [NoCall EXCEPT !.op = "memory_replace", !.label = label,
                             !.old_content = old_content,
                             !.newContent = new_content,
                             !.result = MemoryReplaceTool(Db, memoryCache[m], label,
                                            old_content, new_content).result])

CreateRequests ==
    [label : Labels, value : CreateValues, description : {None},
     charLimit : CreateLimits, readOnly : CreateFlags, hidden : {None}]

\* what updateBlock is called with: a value alone (short, long), a limit
\* alone, a value with a limit that holds it or does not, and each flag alone
Updates ==
    {[NoUpdates EXCEPT !.value = Some(<<"x">>)],
     [NoUpdates EXCEPT !.value = Some(<<"x", "x", "x">>)],
     [NoUpdates EXCEPT !.charLimit = Some(1)],
     [NoUpdates EXCEPT !.value = Some(<<"x", "x", "x">>), !.charLimit = Some(3)],
     [NoUpdates EXCEPT !.value = Some(<<"x", "x", "x">>), !.charLimit = Some(1)],
     [NoUpdates EXCEPT !.description = Some("d")],
     [NoUpdates EXCEPT !.readOnly = Some(TRUE)],
     [NoUpdates EXCEPT !.hidden = Some(TRUE)]}

\* one Manager (one process) on the store
Next ==
    \/ \E req \in CreateRequests : CreateBlock(1, req)
    \/ \E l \in Labels, u \in Updates : UpdateBlock(1, l, u)
    \/ \E l \in Labels : DeleteBlock(1, l)
    \/ \E l \in Labels, c \in AppendContents : AppendBlock(1, l, c)
    \/ \E l \in Labels, o \in OldContents, n \in NewContents : ReplaceBlock(1, l, o, n)
    \/ GetBlocks(1)
    \/ ClearCache(1)

Spec == Init /\ [][Next]_vars

-----------------------------------------------------------------------------
(* The agent's view: the tools and the reads, next to the Manager calls     *)
(* that set the store up or name a label.                                  *)

\* createBlock as the tools' cases need it: a full block ("xx" of 2), a
\* read-only block, an empty block of the default limit, a hidden block
ToolCreateRequests ==
    {[label |-> l, value |-> None, description |-> None,
      charLimit |-> None, readOnly |-> None, hidden |-> None] : l \in Labels}
    \cup
    {[label |-> l, value |-> Some(<<"x", "x">>), description |-> None,
      charLimit |-> Some(2), readOnly |-> None, hidden |-> None] : l \in Labels}
    \cup
    {[label |-> l, value |-> None, description |-> Some("d"),
      charLimit |-> None, readOnly |-> Some(TRUE), hidden |-> None] : l \in Labels}
    \cup
    {[label |-> l, value |-> Some(<<"x">>), description |-> None,
      charLimit |-> None, readOnly |-> None, hidden |-> Some(TRUE)] : l \in Labels}

\* memory_replace's old_content: omitted, empty, present
OptionalOldContents == {None} \cup {Some(o) : o \in OldContents}

\* memory_replace's new_content: empty, or longer than the full block's limit
ToolNewContents == {<<>>, <<"y", "y", "y">>}

CompileOptions == {None, LlmConfig("anthropic")}

NextTools ==
    \/ \E req \in ToolCreateRequests : CreateBlock(1, req)
    \/ \E l \in Labels : UpdateBlock(1, l, ValueUpdate(<<"x">>))
    \/ \E l \in Labels : DeleteBlock(1, l)
    \/ \E l \in Labels : AppendBlock(1, l, <<"x">>)
    \/ \E l \in Labels : ReplaceBlock(1, l, <<>>, <<>>)
    \/ \E l \in Labels : GetBlock(1, l)
    \/ GetBlocks(1)
    \/ ListBlockLabels(1)
    \/ \E l \in Labels : GetBlockHistory(1, l)
    \/ \E o \in CompileOptions : Compile(1, o)
    \/ MemoryList(1)
    \/ \E l \in Labels, c \in AppendContents : MemoryAppend(1, l, c)
    \/ \E l \in Labels, o \in OptionalOldContents, n \in ToolNewContents :
            MemoryReplace(1, l, o, n)

SpecTools == Init /\ [][NextTools]_vars

-----------------------------------------------------------------------------
(* Creating blocks under a configured maxBlocks (SettingsManager).          *)

\* getMemoryMaxBlocks: this.settings.memory?.maxBlocks ?? 10
DefaultMaxBlocks == 10
GetMemoryMaxBlocks == IF maxBlocks = None THEN DefaultMaxBlocks ELSE Get(maxBlocks)

\* setMemoryMaxBlocks: memory.maxBlocks = Math.max(1, max)
SetMemoryMaxBlocks(max) ==
    /\ maxBlocks' = Some(IF max > 1 THEN max ELSE 1)
    /\ last' = [NoCall EXCEPT !.op = "setMemoryMaxBlocks"]
    /\ UNCHANGED <<memory_blocks, memory_block_history, uuids, clock, memoryCache, pc,
                   toolCalls>>

\* what setMemoryMaxBlocks is called with
MaxBlocksInputs == {0, 1, 2}

\* createBlock with values of length 0, 1, 2 under no limit, limit 1, limit 2
LimitCreateRequests ==
    [label : Labels,
     value : {None, Some(<<"x">>), Some(<<"x", "x">>)},
     description : {None},
     charLimit : {None, Some(1), Some(2)},
     readOnly : {None}, hidden : {None}]

NextCreate ==
    \/ \E req \in LimitCreateRequests : CreateBlock(1, req)
    \/ \E l \in Labels : DeleteBlock(1, l)
    \/ GetBlocks(1)
    \/ \E max \in MaxBlocksInputs : SetMemoryMaxBlocks(max)

SpecCreate == Init /\ [][NextCreate]_vars

-----------------------------------------------------------------------------
(* Two Managers constructed with different session ids on one database.    *)

\* createBlock by Manager m: the description tells which Manager asked
SessionCreateRequests(m) ==
    {[label |-> l, value |-> None, description |-> Some(SessionIds[m]),
      charLimit |-> None, readOnly |-> None, hidden |-> None] : l \in Labels}

NextSessions ==
    \E m \in Managers :
        \/ \E req \in SessionCreateRequests(m) : CreateBlock(m, req)
        \/ \E l \in Labels : GetBlock(m, l)
        \/ \E l \in Labels : DeleteBlock(m, l)
        \/ GetBlocks(m)
        \/ ClearCache(m)

SpecSessions == Init /\ [][NextSessions]_vars

-----------------------------------------------------------------------------
(* The store writes statement by statement.  MemoryDatabase.createBlock is  *)
(* INSERT row; INSERT history; SELECT, and updateBlock is SELECT existing;  *)
(* UPDATE; INSERT history; SELECT, each statement committed on its own     *)
(* (there is no transaction).  Between two statements of one Manager the    *)
(* other Manager (another process on the same database file) may run       *)
(* statements of its own, and the process may die.  pc[m] holds the locals  *)
(* of the call Manager m is in.                                            *)

\* the block the database holds when the processes start: created earlier
InitialRequest ==
    [label |-> "a", value |-> None, description |-> None,
     charLimit |-> None, readOnly |-> None, hidden |-> None]
InitialDb ==
    DbCreateBlock([blocks |-> {}, history |-> <<>>, uuids |-> 0, clock |-> -1],
                  "global", InitialRequest).db

InitSteps ==
    /\ memory_blocks = InitialDb.blocks
    /\ memory_block_history = InitialDb.history
    /\ uuids = InitialDb.uuids
    /\ clock = InitialDb.clock
    /\ memoryCache = [m \in Managers |-> Construct(SessionIds[m])]
    /\ maxBlocks = None
    /\ toolCalls = NoToolCalls
    /\ pc = [m \in Managers |-> Idle]
    /\ last = NoCall

\* createBlock up to and with the INSERT of the row; a call the Manager
\* rejects, or whose INSERT throws, is over at once
BeginCreate(m, req) ==
    /\ pc[m].at = "idle"
    /\ LET cache == Loaded(Db, memoryCache[m])
           out == MgrCreateBlock(Db, memoryCache[m], req)
           call == [NoCall EXCEPT !.op = "createBlock", !.label = req.label]
       IN  IF out.outcome # "ok"
           THEN Return(m, out, call)
           ELSE /\ Now(Db) <= MaxWrites
                /\ memory_blocks' = memory_blocks \cup
                       {InsertedRow(uuids + 1, cache.sessionId, req, Now(Db))}
                /\ uuids' = uuids + 1
                /\ clock' = Now(Db)
                /\ memoryCache' = [memoryCache EXCEPT ![m] = cache]
                /\ pc' = [pc EXCEPT ![m] =
                            [at |-> "createBlock.history", call |-> call,
                             id |-> uuids + 1, label |-> req.label,
                             updates |-> ValueUpdate(OrEmptySeq(req.value)),
                             version |-> InitialVersion, now |-> Now(Db)]]
                /\ UNCHANGED <<memory_block_history, maxBlocks, toolCalls, last>>

\* updateBlock (for appendBlock: with the value made from the cached one) up
\* to and with the SELECT of the existing row
BeginWrite(m, call, out, label, updates) ==
    /\ pc[m].at = "idle"
    /\ LET cache == Loaded(Db, memoryCache[m])
       IN  IF out.outcome # "ok"
           THEN Return(m, out, call)
           ELSE /\ Now(Db) <= MaxWrites
                /\ clock' = Now(Db)
                /\ memoryCache' = [memoryCache EXCEPT ![m] = cache]
                /\ pc' = [pc EXCEPT ![m] =
                            [at |-> "updateBlock.run", call |-> call,
                             id |-> Get(DbGetBlockByLabel(Db, cache.sessionId, label)).id,
                             label |-> label, updates |-> updates,
                             version |-> NewVersion(Get(DbGetBlockByLabel(Db,
                                             cache.sessionId, label))),
                             now |-> Now(Db)]]
                /\ UNCHANGED <<memory_blocks, memory_block_history, uuids,
                               maxBlocks, toolCalls, last>>

BeginUpdate(m, label, updates) ==
    /\ m \in Managers
    /\ BeginWrite(m, [NoCall EXCEPT !.op = "updateBlock", !.label = label,
                                    !.updates = updates],
                  MgrUpdateBlock(Db, memoryCache[m], label, updates),
                  label, updates)

BeginAppend(m, label, content) ==
    /\ m \in Managers
    /\ BeginWrite(m, [NoCall EXCEPT !.op = "appendBlock", !.label = label,
                                    !.content = content],
                  MgrAppendBlock(Db, memoryCache[m], label, content),
                  label,
                  IF Find(Loaded(Db, memoryCache[m]), label) = None THEN NoUpdates
                  ELSE ValueUpdate(AppendValue(
                           Get(Find(Loaded(Db, memoryCache[m]), label)).value,
                           content)))

\* the UPDATE statement of updateBlock
RunUpdate(m) ==
    /\ pc[m].at = "updateBlock.run"
    /\ memory_blocks' = UpdatedRows(memory_blocks, memoryCache[m].sessionId,
                                    pc[m].label, pc[m].updates, pc[m].now,
                                    pc[m].version)
    /\ pc' = [pc EXCEPT ![m].at = IF WritesHistory(pc[m].updates)
                                  THEN "updateBlock.history"
                                  ELSE "updateBlock.return"]
    /\ UNCHANGED <<memory_block_history, uuids, clock, memoryCache, maxBlocks, toolCalls, last>>

\* createHistoryEntry, of createBlock and of updateBlock
InsertHistory(m) ==
    /\ pc[m].at \in {"createBlock.history", "updateBlock.history"}
    /\ memory_block_history' =
           DbCreateHistoryEntry(memory_block_history, pc[m].id, pc[m].label,
                                Get(pc[m].updates.value), pc[m].version, pc[m].now)
    /\ pc' = [pc EXCEPT ![m].at = IF pc[m].at = "createBlock.history"
                                  THEN "createBlock.return"
                                  ELSE "updateBlock.return"]
    /\ UNCHANGED <<memory_blocks, uuids, clock, memoryCache, maxBlocks, toolCalls, last>>

\* the closing SELECT (by id in createBlock, by label in updateBlock), the
\* Manager's cacheUpdate and the return
ReturnWritten(m) ==
    /\ pc[m].at \in {"createBlock.return", "updateBlock.return"}
    /\ LET block == IF pc[m].at = "createBlock.return"
                    THEN DbGetBlock(Db, pc[m].id)
                    ELSE DbGetBlockByLabel(Db, memoryCache[m].sessionId, pc[m].label)
       IN  /\ memoryCache' = [memoryCache EXCEPT ![m] =
                                 IF block = None THEN @ ELSE CacheUpdate(@, Get(block))]
           /\ last' = [pc[m].call EXCEPT !.mgr = m,
                           !.outcome = IF block = None THEN "undefined" ELSE "ok",
                           !.block = block]
    /\ pc' = [pc EXCEPT ![m] = Idle]
    /\ UNCHANGED <<memory_blocks, memory_block_history, uuids, clock, maxBlocks, toolCalls>>

\* the process of Manager m dies inside a call and is started again
Crash(m) ==
    /\ pc[m].at # "idle"
    /\ pc' = [pc EXCEPT ![m] = Idle]
    /\ memoryCache' = [memoryCache EXCEPT ![m] = Construct(SessionIds[m])]
    /\ last' = [NoCall EXCEPT !.op = "crash", !.mgr = m]
    /\ UNCHANGED <<memory_blocks, memory_block_history, uuids, clock, maxBlocks, toolCalls>>

\* the value each Manager writes
StepValues == <<"x", "y">>

NextSteps ==
    \E m \in Managers :
        \/ \E l \in Labels : BeginCreate(m, [InitialRequest EXCEPT !.label = l])
        \/ \E l \in Labels : BeginUpdate(m, l, ValueUpdate(<<StepValues[m]>>))
        \/ \E l \in Labels : BeginAppend(m, l, <<StepValues[m]>>)
        \/ RunUpdate(m)
        \/ InsertHistory(m)
        \/ ReturnWritten(m)
        \/ Crash(m)

SpecSteps == InitSteps /\ [][NextSteps]_vars

-----------------------------------------------------------------------------
(* Two memory_append calls of one assistant message, in one process.       *)
(* execute is an async function without an await: its body, with           *)
(* appendBlock, updateBlock, the store's statements and cacheUpdate, runs   *)
(* to completion when it is called.  The agent may call the two in either   *)
(* order.                                                                  *)

\* a block of the default limit, or of a limit (2) that holds one content
\* but not two
AppendCreateRequests ==
    [label : Labels, value : {None}, description : {None},
     charLimit : {None, Some(2)}, readOnly : {None}, hidden : {None}]

\* the contents a call appends
ToolCallContents == {<<"x">>, <<"y">>}

\* the assistant message asks for memory_append on label, once with each
\* of the contents
StartAppends(label, contents) ==
    /\ \A c \in ToolCallIds : toolCalls[c].at = "none"
    /\ toolCalls' = [c \in ToolCallIds |->
                       [at |-> "pending", label |-> label,
                        content |-> contents[c],
                        before |-> DbGetBlockByLabel(Db, memoryCache[1].sessionId,
                                                     label)]]
    /\ last' = [NoCall EXCEPT !.op = "startAppends", !.label = label]
    /\ UNCHANGED <<memory_blocks, memory_block_history, uuids, clock, memoryCache,
                   maxBlocks, pc>>

\* the agent calls execute of call c
ExecuteAppend(c) ==
    /\ toolCalls[c].at = "pending"
    /\ LET out == MemoryAppendTool(Db, memoryCache[1], toolCalls[c].label,
                                   toolCalls[c].content)
       IN  /\ out.db.clock <= MaxWrites
           /\ memory_blocks' = out.db.blocks
           /\ memory_block_history' = out.db.history
           /\ uuids' = out.db.uuids
           /\ clock' = out.db.clock
           /\ memoryCache' = [memoryCache EXCEPT ![1] = out.cache]
           /\ toolCalls' = [toolCalls EXCEPT ![c] =
                  [at |-> "settled", label |-> toolCalls[c].label,
                   content |-> toolCalls[c].content,
                   before |-> toolCalls[c].before,
                   result |-> out.result]]
           /\ last' = [NoCall EXCEPT !.op = "memory_append", !.mgr = 1,
                          !.label = toolCalls[c].label,
                          !.content = toolCalls[c].content,
                          !.outcome = out.outcome, !.block = out.block,
                          !.result = out.result]
    /\ UNCHANGED <<maxBlocks, pc>>

\* both calls have returned: the results go to the model
FinishAppends ==
    /\ \A c \in ToolCallIds : toolCalls[c].at = "settled"
    /\ toolCalls' = NoToolCalls
    /\ last' = [NoCall EXCEPT !.op = "finishAppends"]
    /\ UNCHANGED <<memory_blocks, memory_block_history, uuids, clock, memoryCache,
                   maxBlocks, pc>>

NextAppends ==
    \/ \E req \in AppendCreateRequests : CreateBlock(1, req)
    \/ \E l \in Labels, contents \in [ToolCallIds -> ToolCallContents] :
          StartAppends(l, contents)
    \/ \E c \in ToolCallIds : ExecuteAppend(c)
    \/ FinishAppends
    \/ ClearCache(1)

SpecAppends == InitSteps /\ [][NextAppends]_vars

-----------------------------------------------------------------------------
(* One Manager and the read-only flag: blocks created read-only or not,     *)
(* and every mutating call, the ones that set or clear the flag included.  *)

ReadOnlyCreateRequests ==
    [label : Labels, value : {None}, description : {None}, charLimit : {None},
     readOnly : {None, Some(TRUE)}, hidden : {None}]

ReadOnlyUpdates ==
    {[NoUpdates EXCEPT !.readOnly = Some(TRUE)],
     [NoUpdates EXCEPT !.readOnly = Some(FALSE)],
     [NoUpdates EXCEPT !.value = Some(<<"x">>)],
     [NoUpdates EXCEPT !.description = Some("d")]}

NextReadOnly ==
    \/ \E req \in ReadOnlyCreateRequests : CreateBlock(1, req)
    \/ \E l \in Labels, u \in ReadOnlyUpdates : UpdateBlock(1, l, u)
    \/ \E l \in Labels : DeleteBlock(1, l)
    \/ \E l \in Labels : AppendBlock(1, l, <<"x">>)
    \/ \E l \in Labels : ReplaceBlock(1, l, <<>>, <<"y">>)
    \/ ClearCache(1)

SpecReadOnly == Init /\ [][NextReadOnly]_vars

-----------------------------------------------------------------------------
(* Two Managers (two processes) reading and writing one database that       *)
(* already holds block "a", each call running as a whole.                  *)

NextShared ==
    \E m \in Managers :
        \/ \E req \in SessionCreateRequests(m) : CreateBlock(m, req)
        \/ \E l \in Labels : UpdateBlock(m, l, ValueUpdate(<<StepValues[m]>>))
        \/ \E l \in Labels : DeleteBlock(m, l)
        \/ \E l \in Labels : GetBlock(m, l)
        \/ \E l \in Labels : GetBlockHistory(m, l)
        \/ GetBlocks(m)
        \/ ClearCache(m)

SpecShared == InitSteps /\ [][NextShared]_vars

-----------------------------------------------------------------------------
(* compileMemory as a function of its arguments: the initial states draw    *)
(* the block array and the options, the one action applies the function.   *)

\* blocks in one array
MaxBlocks == 3

\* a MemoryBlock as the compiler reads it
CompileBlock(label, value, description, charLimit, readOnly, hidden) ==
    [id |-> 1, label |-> label, value |-> value, description |-> description,
     charLimit |-> charLimit, readOnly |-> readOnly, hidden |-> hidden,
     createdAt |-> 1, updatedAt |-> 1, version |-> InitialVersion]

\* the blocks the arrays are made of: values that are empty, one line,
\* lines with an empty one between, a line with a trailing newline; with and
\* without description and read_only; hidden blocks with a value of their own
CompileBlocks ==
    {CompileBlock("a", <<>>, "", DefaultCharLimit, FALSE, FALSE),
     CompileBlock("a", <<"x">>, "d", 2, TRUE, FALSE),
     CompileBlock("b", <<"x", NL, NL, "y">>, "", DefaultCharLimit, FALSE, FALSE),
     CompileBlock("b", <<"x", NL>>, "", 2, FALSE, FALSE),
     CompileBlock("b", <<"h">>, "", DefaultCharLimit, FALSE, TRUE),
     CompileBlock("a", <<"h", NL, "h">>, "d", DefaultCharLimit, TRUE, TRUE)}

CompileBlockArrays == UNION {[1..n -> CompileBlocks] : n \in 0..MaxBlocks}

AllCompileOptions == {None, NoLlmConfig, LlmConfig("anthropic"), LlmConfig("openai")}

InitCompile ==
    /\ memory_blocks = {}
    /\ memory_block_history = <<>>
    /\ uuids = 0
    /\ clock = 0
    /\ memoryCache = [m \in Managers |-> Construct(SessionIds[m])]
    /\ maxBlocks = None
    /\ toolCalls = NoToolCalls
    /\ pc = [m \in Managers |-> Idle]
    /\ \E blocks \in CompileBlockArrays, options \in AllCompileOptions :
           last = [NoCall EXCEPT !.op = "arguments", !.blocks = blocks,
                                 !.options = options]

\* compileMemory(blocks, options)
CompileMemoryCall ==
    /\ last.op = "arguments"
    /\ last' = [last EXCEPT !.op = "compileMemory",
                            !.returned = CompileMemory(last.blocks, last.options)]
    /\ UNCHANGED <<memory_blocks, memory_block_history, uuids, clock, memoryCache,
                   maxBlocks, toolCalls, pc>>

\* getCompiledMemoryBlocks(blocks)
GetCompiledMemoryBlocksCall ==
    /\ last.op = "arguments"
    /\ last' = [last EXCEPT !.op = "getCompiledMemoryBlocks",
                            !.returned = GetCompiledMemoryBlocks(last.blocks)]
    /\ UNCHANGED <<memory_blocks, memory_block_history, uuids, clock, memoryCache,
                   maxBlocks, toolCalls, pc>>

\* estimateCompiledMemoryTokens(blocks), while last.options are the options
\* the text is compiled with for the prompt
EstimateCompiledMemoryTokensCall ==
    /\ last.op = "arguments"
    /\ last' = [last EXCEPT !.op = "estimateCompiledMemoryTokens",
                            !.returned = EstimateCompiledMemoryTokens(last.blocks)]
    /\ UNCHANGED <<memory_blocks, memory_block_history, uuids, clock, memoryCache,
                   maxBlocks, toolCalls, pc>>

NextCompile ==
    \/ CompileMemoryCall
    \/ GetCompiledMemoryBlocksCall
    \/ EstimateCompiledMemoryTokensCall

SpecCompile == InitCompile /\ [][NextCompile]_vars

-----------------------------------------------------------------------------
(* What the properties read: the stored block of a label before and after  *)
(* a step, its history rows, and the entry Manager 1 has cached for it.    *)

Stored(l) == {Selected(b) : b \in {r \in memory_blocks : r.label = l}}
StoredAfter(l) == {Selected(b) : b \in {r \in memory_blocks' : r.label = l}}
HistoryRows(history, id, v) ==
    {i \in DOMAIN history : history[i].blockId = id /\ history[i].version = v}
CachedAfter(l) == Find(memoryCache'[1], l)

StoreUnchanged ==
    /\ memory_blocks' = memory_blocks
    /\ memory_block_history' = memory_block_history

\* the call just made fails and changes nothing: the store is as before, and
\* the cache is as before, or was null and now holds the store's rows
RejectedWith(error) ==
    /\ last'.outcome = error
    /\ StoreUnchanged
    /\ memoryCache'[1] = Loaded(Db, memoryCache[1])

ValueOps == {"updateBlock", "appendBlock", "replaceBlock"}

\* the lines of a compiled text
Lines(text) == Split(text, NL)
NonBlank(line) == line # <<>>

\* the blocks of an array that are not hidden, in the array's order
NotHidden(b) == ~b.hidden
Visible(blocks) == SelectSeq(blocks, NotHidden)

\* positions of the lines of a text that are equal to `line`, in order
RECURSIVE PositionsFrom(_, _, _)
PositionsFrom(lines, line, i) ==
    IF i > Len(lines) THEN <<>>
    ELSE (IF lines[i] = line THEN <<i>> ELSE <<>>) \o PositionsFrom(lines, line, i + 1)
Positions(lines, line) == PositionsFrom(lines, line, 1)

\* the labels of the opening (closing) tag lines of a text, in order
IsOpenTag(line) == \E l \in Labels : line = <<"<", l, ">">>
IsCloseTag(line) == \E l \in Labels : line = <<"</", l, ">">>
TagLabel(line) == line[2]
OpenTagLabels(lines) ==
    [i \in 1..Len(SelectSeq(lines, IsOpenTag)) |-> TagLabel(SelectSeq(lines, IsOpenTag)[i])]
CloseTagLabels(lines) ==
    [i \in 1..Len(SelectSeq(lines, IsCloseTag)) |-> TagLabel(SelectSeq(lines, IsCloseTag)[i])]
LabelsOf(blocks) == [i \in 1..Len(blocks) |-> blocks[i].label]

\* the value section of the k-th rendered block: the lines after its
\* <value> line and before its </value> line
ValueSection(lines, k) ==
    SubSeq(lines, Positions(lines, <<"<value>">>)[k] + 1,
                  Positions(lines, <<"</value>">>)[k] - 1)

\* is the compiler told to number the lines
Numbered(options) ==
    /\ options # None
    /\ Get(options).llmConfig # None
    /\ Get(Get(options).llmConfig).modelEndpointType = "anthropic"

-----------------------------------------------------------------------------
\* C1: after any sequence of Manager operations every stored block has
\* value.length <= charLimit.
C1_ValueWithinLimit ==
    \A b \in memory_blocks : Len(b.value) <= b.charLimit

\* C2: a successful updateBlock that supplies a value raises the version by
\* exactly 1 and records one new history row with that version and value; a
\* successful updateBlock without a value leaves the version as it was and
\* adds no history row.
C2_VersionPerValueChange ==
    [][(last'.op = "updateBlock" /\ last'.outcome = "ok") =>
        LET pre == Get(Stored(last'.label))
            post == Get(StoredAfter(last'.label))
        IN  IF last'.updates.value # None
            THEN /\ post.version = pre.version + 1
                 /\ Len(memory_block_history') = Len(memory_block_history) + 1
                 /\ SubSeq(memory_block_history', 1, Len(memory_block_history))
                        = memory_block_history
                 /\ LET row == memory_block_history'[Len(memory_block_history')]
                    IN  /\ row.blockId = pre.id
                        /\ row.version = post.version
                        /\ row.value = Get(last'.updates.value)
            ELSE /\ post.version = pre.version
                 /\ memory_block_history' = memory_block_history]_vars

\* C3: every stored block has exactly one history row for each version from
\* 1 up to its current version.
C3_HistoryRowPerVersion ==
    \A b \in memory_blocks :
        \A v \in 1..b.version :
            Cardinality(HistoryRows(memory_block_history, b.id, v)) = 1

\* C4: a block's version is 1 right after its creation, and no step lowers
\* the version of a block that stays in the store.
C4_VersionMonotonic ==
    [][\A b \in memory_blocks' :
           IF \E a \in memory_blocks : a.id = b.id
           THEN \A a \in memory_blocks : a.id = b.id => b.version >= a.version
           ELSE b.version = 1]_vars

C4_Witness ==
    /\ last.op = "appendBlock"
    /\ last.outcome = "ok"
    /\ \E b \in memory_blocks : b.label = last.label /\ b.version = 2

\* C5: updateBlock, appendBlock, replaceBlock and deleteBlock on a read-only
\* block fail with the read-only error and leave the store (blocks and
\* history rows) and the cached block as they were.
C5_ReadOnlyRejected ==
    [][(/\ last'.op \in ValueOps \cup {"deleteBlock"}
        /\ Stored(last'.label) # {}
        /\ Get(Stored(last'.label)).readOnly)
       => /\ RejectedWith("ReadOnly")
          /\ CachedAfter(last'.label) = Stored(last'.label)]_vars

C5_Witness ==
    /\ last.op = "deleteBlock"
    /\ last.outcome = "ReadOnly"
    /\ \E b \in memory_blocks : b.label = last.label /\ b.readOnly /\ b.version = 2

\* C6: an updateBlock, appendBlock or replaceBlock whose value to be written
\* is longer than the block's charLimit (for appendBlock: existing value,
\* separator and content together) is rejected with the limit error; a
\* rejected call changes nothing in the store (value, version, updatedAt,
\* history) or the cache, and an accepted call stores a value within that
\* limit that is the whole value, not a prefix cut to fit.
C6_OverLimitRejectedWhole ==
    [][(/\ last'.op \in ValueOps
        /\ Stored(last'.label) # {}
        /\ ~Get(Stored(last'.label)).readOnly)
       => LET pre == Get(Stored(last'.label))
              sep == IF Len(pre.value) > 0 THEN 1 ELSE 0
              tooLong ==
                  \/ /\ last'.op = "updateBlock"
                     /\ last'.updates.value # None
                     /\ Len(Get(last'.updates.value)) > pre.charLimit
                  \/ /\ last'.op = "appendBlock"
                     /\ Len(pre.value) + sep + Len(last'.content) > pre.charLimit
                  \/ /\ last'.op = "replaceBlock"
                     /\ last'.oldContent = <<>>
                     /\ Len(last'.newContent) > pre.charLimit
          IN  /\ tooLong => last'.outcome = "CharLimitExceeded"
              /\ last'.outcome = "CharLimitExceeded" =>
                     /\ RejectedWith("CharLimitExceeded")
                     /\ CachedAfter(last'.label) = {pre}
              /\ (last'.outcome = "ok" /\ (last'.op = "updateBlock" => last'.updates.value # None))
                 => LET post == Get(StoredAfter(last'.label))
                    IN  /\ Len(post.value) <= pre.charLimit
                        /\ last'.op = "updateBlock" => post.value = Get(last'.updates.value)
                        /\ last'.op = "appendBlock" =>
                               Len(post.value) = Len(pre.value) + sep + Len(last'.content)]_vars

C6_Witness ==
    /\ last.op = "appendBlock"
    /\ last.outcome = "CharLimitExceeded"
    /\ \E b \in memory_blocks :
           /\ b.label = last.label
           /\ Len(b.value) <= b.charLimit
           /\ Len(b.value) + 1 + Len(last.content) > b.charLimit

\* C7: updateBlock on an existing writable block is rejected with the limit
\* error exactly when the resulting value (the supplied one, else the current
\* one) is longer than the effective limit (the supplied one, else the
\* current one).
C7_RejectedIffOverEffectiveLimit ==
    [][(/\ last'.op = "updateBlock"
        /\ Stored(last'.label) # {}
        /\ ~Get(Stored(last'.label)).readOnly)
       => LET pre == Get(Stored(last'.label))
              u == last'.updates
              value == IF u.value # None THEN Get(u.value) ELSE pre.value
              limit == IF u.charLimit # None THEN Get(u.charLimit) ELSE pre.charLimit
          IN  (last'.outcome = "CharLimitExceeded") <=> (Len(value) > limit)]_vars

\* C8: createBlock with a label that names a stored block fails with the
\* duplicate-label error and leaves that block and the history untouched; no
\* two stored blocks ever share a label.
C8_DuplicateLabelRejected ==
    [][/\ (last'.op = "createBlock" /\ Stored(last'.label) # {})
          => /\ RejectedWith("DuplicateLabel")
             /\ StoredAfter(last'.label) = Stored(last'.label)
       /\ \A b1, b2 \in memory_blocks' : b1.label = b2.label => b1 = b2]_vars

C8_Witness ==
    /\ last.op = "createBlock"
    /\ last.outcome = "DuplicateLabel"
    /\ \E b \in memory_blocks : b.label = last.label /\ b.version = 2
    /\ Cardinality(memory_blocks) = 1

\* C9: a successful appendBlock(label, content) sets the value to the
\* previous value, then one newline if and only if the previous value was
\* non-empty, then content.
C9_AppendSeparator ==
    [][(last'.op = "appendBlock" /\ last'.outcome = "ok")
       => LET pre == Get(Stored(last'.label))
              post == Get(StoredAfter(last'.label))
          IN  post.value = IF Len(pre.value) = 0
                           THEN last'.content
                           ELSE pre.value \o <<"\n">> \o last'.content]_vars

C9_Witness ==
    /\ last.op = "appendBlock"
    /\ last.outcome = "ok"
    /\ last.content = <<"x">>
    /\ \E b \in memory_blocks :
           b.label = last.label /\ b.value = <<"x", "x", "\n", "x">>

\* C10: a successful replaceBlock with a non-empty oldContent that occurs in
\* the value sets the value to the text before the first occurrence, then
\* newContent verbatim, then the text after that occurrence.
C10_ReplaceFirstVerbatim ==
    [][(/\ last'.op = "replaceBlock"
        /\ last'.outcome = "ok"
        /\ last'.oldContent # <<>>)
       => LET pre == Get(Stored(last'.label))
              post == Get(StoredAfter(last'.label))
              p == IndexOf(pre.value, last'.oldContent)
          IN  post.value = SubSeq(pre.value, 1, p - 1)
                               \o last'.newContent
                               \o SubSeq(pre.value, p + Len(last'.oldContent),
                                         Len(pre.value))]_vars

\* C11: replaceBlock with a non-empty oldContent that is no substring of the
\* current value fails with the content-not-found error; the stored value,
\* version and history (and the cached block) stay as they were.
C11_ContentNotFound ==
    [][(/\ last'.op = "replaceBlock"
        /\ Stored(last'.label) # {}
        /\ ~Get(Stored(last'.label)).readOnly
        /\ last'.oldContent # <<>>
        /\ LET v == Get(Stored(last'.label)).value
               o == last'.oldContent
           IN  \A i \in 1..Len(v) :
                   i + Len(o) - 1 <= Len(v) => SubSeq(v, i, i + Len(o) - 1) # o)
       => /\ RejectedWith("ContentNotFound")
          /\ CachedAfter(last'.label) = Stored(last'.label)]_vars

C11_Witness ==
    /\ last.op = "replaceBlock"
    /\ last.outcome = "ContentNotFound"
    /\ last.oldContent = <<"x">>
    /\ \E b \in memory_blocks :
           b.label = last.label /\ b.value = <<"$", "$">> /\ b.version = 2

\* C12: replaceBlock with an empty oldContent on a writable block succeeds
\* whenever newContent fits the limit, and then the value is exactly
\* newContent (the empty string for an empty newContent), the version is one
\* higher and one history row with that version and value is added.
C12_ReplaceWholeValue ==
    [][(/\ last'.op = "replaceBlock"
        /\ last'.oldContent = <<>>
        /\ Stored(last'.label) # {}
        /\ ~Get(Stored(last'.label)).readOnly
        /\ Len(last'.newContent) <= Get(Stored(last'.label)).charLimit)
       => LET pre == Get(Stored(last'.label))
              post == Get(StoredAfter(last'.label))
              n == Len(memory_block_history)
          IN  /\ last'.outcome = "ok"
              /\ StoredAfter(last'.label) # {}
              /\ post.value = last'.newContent
              /\ post.version = pre.version + 1
              /\ Len(memory_block_history') = n + 1
              /\ SubSeq(memory_block_history', 1, n) = memory_block_history
              /\ memory_block_history'[n + 1].blockId = pre.id
              /\ memory_block_history'[n + 1].version = pre.version + 1
              /\ memory_block_history'[n + 1].value = last'.newContent]_vars

C12_Witness ==
    /\ last.op = "replaceBlock"
    /\ last.outcome = "ok"
    /\ last.oldContent = <<>>
    /\ last.newContent = <<>>
    /\ \E b \in memory_blocks :
           /\ b.label = last.label
           /\ b.value = <<>>
           /\ b.version = 2
           /\ \E i \in DOMAIN memory_block_history :
                  /\ memory_block_history[i].blockId = b.id
                  /\ memory_block_history[i].version = 1
                  /\ memory_block_history[i].value = <<"x", "x">>

\* C13: deleteBlock returns true exactly when a writable block of that label
\* was stored, and it is then removed; it returns false when no block has the
\* label.  After a successful delete no history row of the block is left,
\* getBlockHistory(label) is empty and getBlock(label) finds nothing.
C13_DeleteRemovesBlockAndHistory ==
    [][last'.op = "deleteBlock"
       => LET l == last'.label
          IN  /\ (last'.outcome = "true")
                     <=> (Stored(l) # {} /\ ~Get(Stored(l)).readOnly)
              /\ Stored(l) = {} => (last'.outcome = "false" /\ StoreUnchanged)
              /\ last'.outcome = "true"
                 => /\ memory_blocks' = {b \in memory_blocks : b.label # l}
                    /\ \A i \in DOMAIN memory_block_history' :
                           memory_block_history'[i].blockId # Get(Stored(l)).id
                    /\ DbGetBlockHistory(Db', memoryCache[1].sessionId, l) = <<>>
                    /\ CachedAfter(l) = None]_vars

C13_Witness ==
    /\ last.op = "deleteBlock"
    /\ last.outcome = "true"
    /\ clock = 2
    /\ uuids = 1
    /\ memory_blocks = {}

\* C14: with one Manager on the store, once its cache is populated the
\* cached blocks are exactly the stored blocks, field for field, each once.
C14_CacheEqualsStore ==
    memoryCache[1].loaded =>
        /\ {memoryCache[1].blocks[i] : i \in 1..Len(memoryCache[1].blocks)}
               = {Selected(b) : b \in memory_blocks}
        /\ Len(memoryCache[1].blocks) = Cardinality(memory_blocks)

C14_Witness ==
    /\ memoryCache[1].loaded
    /\ Len(memoryCache[1].blocks) = 2
    /\ memoryCache[1].blocks # OrderByLabel({Selected(b) : b \in memory_blocks})
    /\ last.op = "createBlock"

-----------------------------------------------------------------------------
ToolOps == {"memory_append", "memory_replace"}
IsSuccess(result) == result.details.error = None /\ result.details.label # None
ErrorPrefix(op) ==
    IF op = "memory_append" THEN "Error appending to memory: "
                            ELSE "Error updating memory: "
\* the result carries the failure message: in the text, after the tool's
\* prefix, and as the error tag
CarriesMessage(result, op, message) ==
    /\ result.text = <<ErrorPrefix(op)>> \o message
    /\ result.details.error = Some(message)

\* C15: memory_append and memory_replace always return a structured result
\* and never raise: a read-only block, an exceeded limit and an old content
\* that is not found each become a result with the Manager's failure message
\* in the text and as the error tag; the result is a success result exactly
\* when the call changed the block; a failure result leaves the store
\* unchanged.
C15_ToolsNeverRaise ==
    [][last'.op \in ToolOps =>
        LET r == last'.result
            l == last'.label
            op == last'.op
        IN  /\ ~r.raised
            /\ r.text # <<>>
            /\ IsSuccess(r) <=> (Stored(l) # StoredAfter(l))
            /\ ~IsSuccess(r) => (StoreUnchanged /\ r.details.error # None)
            /\ \A b \in Stored(l) :
                 /\ b.readOnly =>
                      CarriesMessage(r, op, <<"Block \"", l,
                                              "\" is read-only and cannot be ",
                                              "modified">>)
                 /\ (/\ ~b.readOnly
                     /\ op = "memory_replace"
                     /\ OrEmptySeq(last'.old_content) # <<>>
                     /\ ~Includes(b.value, OrEmptySeq(last'.old_content))) =>
                      CarriesMessage(r, op, <<"Old content not found in block \"",
                                              l, "\"">>)
                 /\ (/\ ~b.readOnly
                     /\ op = "memory_append"
                     /\ Len(b.value) + (IF b.value = <<>> THEN 0 ELSE 1)
                            + Len(last'.content) > b.charLimit) =>
                      CarriesMessage(r, op,
                          <<"Value length (",
                            ToString(Len(b.value) + (IF b.value = <<>> THEN 0 ELSE 1)
                                     + Len(last'.content)),
                            ") exceeds charLimit (", ToString(b.charLimit),
                            ") for block \"", l, "\"">>)
                 /\ (/\ ~b.readOnly
                     /\ op = "memory_replace"
                     /\ OrEmptySeq(last'.old_content) = <<>>
                     /\ Len(last'.newContent) > b.charLimit) =>
                      CarriesMessage(r, op,
                          <<"Value length (", ToString(Len(last'.newContent)),
                            ") exceeds charLimit (", ToString(b.charLimit),
                            ") for block \"", l, "\"">>)
    ]_vars

\* each kind of Manager failure has become a tool result
C15_Witness ==
    /\ last.op \in ToolOps
    /\ last.outcome = "CharLimitExceeded"
    /\ ~last.result.raised
    /\ last.result.details.error # None
    /\ Stored(last.label) # {}

ReadOps == {"getBlock", "getBlocks", "listBlockLabels", "getBlockHistory",
            "compile", "memory_list"}
LabelOps == {"updateBlock", "appendBlock", "replaceBlock", "deleteBlock",
             "memory_append", "memory_replace"}

C18_HiddenLeftOut ==
    last.op = "compileMemory" =>
        LET lines == Lines(last.returned)
            shown == Visible(last.blocks)
        IN  /\ OpenTagLabels(lines) = LabelsOf(shown)
            /\ CloseTagLabels(lines) = LabelsOf(shown)
            /\ Len(Positions(lines, <<"<value>">>)) = Len(shown)
            /\ \A i \in 1..Len(last.returned) : last.returned[i] # "h"
            /\ shown # <<>> =>
                 SelectSeq(lines, NonBlank)
                   = SelectSeq(Lines(CompileMemory(shown, last.options)), NonBlank)

\* a hidden block between two blocks that are not hidden
C18_Witness ==
    /\ last.op = "compileMemory"
    /\ Len(last.blocks) = 3
    /\ ~last.blocks[1].hidden
    /\ last.blocks[2].hidden
    /\ ~last.blocks[3].hidden
    /\ last.blocks[1].label # last.blocks[3].label

\* what C19 says of the k-th rendered block's value section when lines are
\* numbered: one line per line of the value, each with its prefix
NumberedLines(value) ==
    [i \in 1..Len(Split(value, NL)) |->
        <<ToString(i), "→", " ">> \o Split(value, NL)[i]]

\* C19 as stated: with numbering every value has one prefixed line per line
\* of the value (an empty value has one line, the empty one); without it the
\* value section is the value.
C19_OneLinePerValueLine ==
    last.op = "compileMemory" =>
        \A k \in 1..Len(Visible(last.blocks)) :
            LET section == ValueSection(Lines(last.returned), k)
                value == Visible(last.blocks)[k].value
            IN  IF Numbered(last.options)
                THEN section = NumberedLines(value)
                ELSE Join(section, NL) = value

\* C19, amended: with numbering a value that is not empty has one prefixed
\* line per line of the value (an empty line is the prefix alone) and an empty
\* value has no line; without numbering the value section is the value.
C19_OneLinePerLineOfNonEmptyValue ==
    last.op = "compileMemory" =>
        \A k \in 1..Len(Visible(last.blocks)) :
            LET section == ValueSection(Lines(last.returned), k)
                value == Visible(last.blocks)[k].value
            IN  IF Numbered(last.options)
                THEN section = (IF value = <<>> THEN <<>> ELSE NumberedLines(value))
                ELSE Join(section, NL) = value

\* numbered rendering of a value with an empty line, and of an empty value
C19_Witness ==
    /\ last.op = "compileMemory"
    /\ Numbered(last.options)
    /\ \E k \in 1..Len(Visible(last.blocks)) :
          /\ Visible(last.blocks)[k].value = <<"x", NL, NL, "y">>
          /\ ValueSection(Lines(last.returned), k)[2] = <<"2", "→", " ">>
    /\ \E k \in 1..Len(Visible(last.blocks)) :
          /\ Visible(last.blocks)[k].value = <<>>
          /\ ValueSection(Lines(last.returned), k) = <<>>

\* C20: exactly one blank line stands between two consecutive rendered
\* blocks, and none between the closing tag of the last rendered block and
\* </memory_blocks>.
C20_SeparatorBetweenBlocksOnly ==
    (last.op = "compileMemory" /\ Visible(last.blocks) # <<>>) =>
        LET lines == Lines(last.returned)
            shown == Visible(last.blocks)
            closes == Positions(lines, <<"</value>">>)
        IN  /\ \A k \in 1..(Len(shown) - 1) :
                 /\ lines[closes[k] + 2] = <<>>
                 /\ lines[closes[k] + 3] = <<"<", shown[k + 1].label, ">">>
            /\ lines[closes[Len(shown)] + 2] = <<"</memory_blocks>">>

\* the lines of the k-th rendered block between its <metadata> line and its
\* </metadata> line
MetadataSection(lines, k) ==
    SubSeq(lines, Positions(lines, <<"<metadata>">>)[k] + 1,
                  Positions(lines, <<"</metadata>">>)[k] - 1)

\* C21: the token estimate is the ceiling of a quarter of the length of the
\* text compiled from the same blocks with the options the prompt is compiled
\* with, line-numbered or not.
C21_EstimateMatchesCompiled ==
    last.op = "estimateCompiledMemoryTokens" =>
        LET n == TextLength(CompileMemory(last.blocks, last.options))
        IN  /\ 4 * last.returned >= n
            /\ 4 * (last.returned - 1) < n

\* C22: getCompiledMemoryBlocks returns one record per block compileMemory
\* renders, none for a block it skips, in the same order, each with the
\* block's label, description, value, value length, charLimit and readOnly.
C22_CompiledBlocksAsRendered ==
    last.op = "getCompiledMemoryBlocks" =>
        LET shown == Visible(last.blocks)
            lines == Lines(CompileMemory(last.blocks, last.options))
        IN  /\ Len(last.returned) = Len(shown)
            /\ [i \in 1..Len(last.returned) |-> last.returned[i].label]
                   = OpenTagLabels(lines)
            /\ \A i \in 1..Len(shown) :
                   /\ last.returned[i].label = shown[i].label
                   /\ last.returned[i].description = shown[i].description
                   /\ last.returned[i].value = shown[i].value
                   /\ last.returned[i].metadata.charsCurrent = Len(shown[i].value)
                   /\ last.returned[i].metadata.charsLimit = shown[i].charLimit
                   /\ last.returned[i].metadata.readOnly = shown[i].readOnly

\* an array with a hidden block between blocks that are not hidden
C22_Witness ==
    /\ last.op = "getCompiledMemoryBlocks"
    /\ Len(last.blocks) = 3
    /\ last.blocks[2].hidden
    /\ Len(last.returned) = 2
    /\ last.returned[1].metadata.readOnly
    /\ ~last.returned[2].metadata.readOnly

\* C23: the metadata section of a rendered block is a read_only=true line
\* exactly when the block is read-only, then chars_current with the value
\* length, then chars_limit with the block's charLimit.
C23_MetadataSection ==
    last.op = "compileMemory" =>
        \A k \in 1..Len(Visible(last.blocks)) :
            LET b == Visible(last.blocks)[k]
                section == MetadataSection(Lines(last.returned), k)
                counts == << <<"- chars_current=", ToString(Len(b.value))>>,
                             <<"- chars_limit=", ToString(b.charLimit)>> >>
            IN  section = IF b.readOnly THEN << <<"- read_only=true">> >> \o counts
                                        ELSE counts

\* a read-only block and a writable one with another limit, both rendered
C23_Witness ==
    /\ last.op = "compileMemory"
    /\ Len(Visible(last.blocks)) = 2
    /\ Visible(last.blocks)[1].readOnly
    /\ ~Visible(last.blocks)[2].readOnly
    /\ Visible(last.blocks)[1].charLimit # Visible(last.blocks)[2].charLimit
    /\ Len(MetadataSection(Lines(last.returned), 1)) = 3
    /\ Len(MetadataSection(Lines(last.returned), 2)) = 2

\* C30: lines are numbered exactly when the options carry
\* llmConfig.modelEndpointType "anthropic", whatever the blocks hold, and a
\* rendered block has the warning section exactly when lines are numbered.
C30_NumberedIffAnthropic ==
    last.op = "compileMemory" =>
        LET lines == Lines(last.returned)
            shown == Visible(last.blocks)
            anthropic ==
                /\ last.options # None
                /\ Get(last.options).llmConfig # None
                /\ Get(Get(last.options).llmConfig).modelEndpointType = "anthropic"
        IN  /\ Len(Positions(lines, <<"<warning>">>))
                   = (IF anthropic THEN Len(shown) ELSE 0)
            /\ Len(Positions(lines, <<"</warning>">>))
                   = (IF anthropic THEN Len(shown) ELSE 0)
            /\ \A k \in 1..Len(shown) :
                   /\ (lines[Positions(lines, <<"</metadata>">>)[k] + 1] = <<"<warning>">>)
                          <=> anthropic
                   /\ shown[k].value # <<>> =>
                         (LET first == ValueSection(lines, k)[1]
                          IN  (/\ Len(first) >= 3
                               /\ first[1] = "1"
                               /\ first[2] = "→"
                               /\ first[3] = " ") <=> anthropic)

\* a non-anthropic endpoint type with a block that is rendered without
\* warning and numbers
C30_Witness ==
    /\ last.op = "compileMemory"
    /\ last.options = LlmConfig("openai")
    /\ Visible(last.blocks) # <<>>
    /\ Positions(Lines(last.returned), <<"<warning>">>) = <<>>

C28_BlockCountWithinMaxBlocks ==
    Cardinality(memory_blocks) <= GetMemoryMaxBlocks

\* C29: a successful updateBlock, appendBlock or replaceBlock leaves id,
\* label and createdAt as they were; every field the update request does not
\* provide keeps its content, and the version changes only with a value.
C29_OnlyProvidedFieldsChange ==
    [][(last'.op \in ValueOps /\ last'.outcome = "ok") =>
        LET l == last'.label
            b == Get(Stored(l))
            a == Get(StoredAfter(l))
            u == IF last'.op = "updateBlock" THEN last'.updates
                                            ELSE ValueUpdate(a.value)
        IN  /\ a.id = b.id /\ a.label = b.label /\ a.createdAt = b.createdAt
            /\ u.value = None => (a.value = b.value /\ a.version = b.version)
            /\ u.description = None => a.description = b.description
            /\ u.charLimit = None => a.charLimit = b.charLimit
            /\ u.readOnly = None => a.readOnly = b.readOnly
            /\ u.hidden = None => a.hidden = b.hidden
            /\ {r \in memory_blocks' : r.label # l} = {r \in memory_blocks : r.label # l}
    ]_vars

Quiescent == \A m \in Managers : pc[m].at = "idle"

\* C25: the block row and its history row are committed as one unit: when
\* no call is running, crashed calls included, every stored block has a
\* history row for its version.
C25_RowAndHistoryTogether ==
    Quiescent =>
        \A b \in memory_blocks :
            HistoryRows(memory_block_history, b.id, b.version) # {}

\* C26: of two updateBlock calls running at the same time on one label the
\* last UPDATE wins: it stores the caller's value and version whatever the
\* other call has written since the caller read the block, the caller's
\* history row is recorded, and each call returns the block without an error.
C26_LastWriteWins ==
    [][\A m \in Managers :
          /\ (pc[m].at = "updateBlock.run" /\ pc'[m].at \notin {"updateBlock.run", "idle"})
                => \A b \in StoredAfter(pc[m].label) :
                      /\ b.value = Get(pc[m].updates.value)
                      /\ b.version = pc[m].version
          /\ (pc[m].at = "updateBlock.history" /\ pc'[m].at = "updateBlock.return")
                => /\ Len(memory_block_history') = Len(memory_block_history) + 1
                   /\ LET h == memory_block_history'[Len(memory_block_history')]
                      IN  /\ h.blockId = pc[m].id
                          /\ h.version = pc[m].version
                          /\ h.value = Get(pc[m].updates.value)
          /\ (pc[m].at = "updateBlock.return" /\ pc'[m].at = "idle" /\ last'.op # "crash")
                => /\ last'.mgr = m
                   /\ last'.outcome = "ok"
    ]_vars

\* a lost update: both Managers' writes are in the history with the same
\* version, the stored value is the later one alone, and the later call has
\* returned without error
C26_Witness ==
    /\ Quiescent
    /\ last.op \in {"updateBlock", "appendBlock"}
    /\ last.outcome = "ok"
    /\ \E i, j \in DOMAIN memory_block_history :
          /\ i < j
          /\ memory_block_history[i].blockId = memory_block_history[j].blockId
          /\ memory_block_history[i].version = memory_block_history[j].version
          /\ memory_block_history[i].value # memory_block_history[j].value
          /\ \E b \in memory_blocks :
                /\ b.id = memory_block_history[j].blockId
                /\ b.value = memory_block_history[j].value
                /\ b.version = memory_block_history[j].version

\* the summary line memory_list is to give for a block
SummaryLine(b) ==
    <<b.label, ":", " ">>
    \o (IF b.description # "" THEN <<b.description, " ">> ELSE <<>>)
    \o <<"(", ToString(Len(b.value)), "/", ToString(b.charLimit), " chars)">>
    \o (IF b.readOnly THEN <<" ", "[read-only]">> ELSE <<>>)

CachedBlocks(cache) == {cache.blocks[i] : i \in 1..Len(cache.blocks)}

\* C32: getBlock and getBlocks of a Manager whose cache is loaded return the
\* cached blocks whatever the other Manager has written to the store since;
\* clearCache empties the cache, and the first read after it returns
\* exactly the blocks the store holds then.
C32_StaleUntilCleared ==
    [][\A m \in Managers :
        /\ (last'.mgr = m /\ last'.op \in {"getBlock", "getBlocks"}) =>
              IF memoryCache[m].loaded
              THEN /\ memoryCache'[m] = memoryCache[m]
                   /\ last'.op = "getBlocks" => last'.returned = memoryCache[m].blocks
                   /\ last'.op = "getBlock" =>
                         last'.block = Find(memoryCache[m], last'.label)
              ELSE /\ memoryCache'[m].loaded
                   /\ CachedBlocks(memoryCache'[m]) = {Selected(b) : b \in memory_blocks}
                   /\ last'.op = "getBlocks" =>
                         /\ last'.returned = memoryCache'[m].blocks
                         /\ Len(last'.returned) = Cardinality(memory_blocks)
                   /\ last'.op = "getBlock" => last'.block = Stored(last'.label)
        /\ (last'.mgr = m /\ last'.op = "clearCache") =>
              /\ ~memoryCache'[m].loaded
              /\ StoreUnchanged
    ]_vars

\* Manager 1 is handed a block the store no longer holds in that form
C32_Witness ==
    /\ last.mgr = 1
    /\ last.op = "getBlock"
    /\ last.block # None
    /\ last.block # Stored(last.label)
    /\ \E b \in memory_blocks : b.label = "b" /\ b.description = SessionIds[2]

\* C33: in every store state getBlocksForSession returns every stored block
\* once, in ascending order of label, and getBlockHistory(label) returns
\* every history row of the labelled block once, versions descending.
C33_SortedReads ==
    LET all == DbGetBlocksForSession(Db, "global")
    IN  /\ Len(all) = Cardinality(memory_blocks)
        /\ {all[i] : i \in 1..Len(all)} = {Selected(b) : b \in memory_blocks}
        /\ \A i, j \in 1..Len(all) :
              i < j => LabelIndex(all[i].label) < LabelIndex(all[j].label)
        /\ \A l \in Labels :
              LET h == DbGetBlockHistory(Db, "global", l)
              IN  /\ Stored(l) = {} => h = <<>>
                  /\ \A b \in Stored(l) :
                        /\ Len(h) = Cardinality({k \in DOMAIN memory_block_history :
                                          memory_block_history[k].blockId = b.id})
                        /\ \A k \in DOMAIN memory_block_history :
                              memory_block_history[k].blockId = b.id
                                 => \E i \in 1..Len(h) : h[i] = memory_block_history[k]
                  /\ \A i, j \in 1..Len(h) : i < j => h[i].version >= h[j].version

\* getBlockHistory has returned two rows, the later written one first, of
\* one of two stored blocks
C33_Witness ==
    /\ last.op = "getBlockHistory"
    /\ Len(last.returned) = 2
    /\ last.returned[1].version = 2
    /\ last.returned[2].version = 1
    /\ last.returned = DbGetBlockHistory(Db, "global", last.label)
    /\ Cardinality(memory_blocks) = 2

\* C34: in every state one Manager can reach, compile() returns the text it
\* would return after clearCache() and a reload: the order of the blocks
\* handed to the compiler does not depend on the order of the writes.
C34_CompileSameAfterReload ==
    \A o \in CompileOptions :
        MgrCompile(Db, memoryCache[1], o)
            = MgrCompile(Db, Load(Db, NullCache(memoryCache[1])), o)

\* C35: a block whose readOnly flag is true stays in the store exactly as it
\* is, flag included, whatever the Manager is called with, and its history
\* gets no new row.
C35_ReadOnlyAbsorbing ==
    [][\A b \in memory_blocks :
          b.readOnly =>
             /\ b \in memory_blocks'
             /\ LET Mine(h) == h.blockId = b.id
                IN  SelectSeq(memory_block_history', Mine)
                       = SelectSeq(memory_block_history, Mine)
             /\ last'.label = b.label =>
                   last'.outcome \in {"ReadOnly", "DuplicateLabel"}
    ]_vars

\* a block made read-only by updateBlock has refused to have the flag cleared
C35_Witness ==
    /\ last.op = "updateBlock"
    /\ last.updates.readOnly = Some(FALSE)
    /\ last.outcome = "ReadOnly"
    /\ \E b \in memory_blocks :
          b.label = last.label /\ b.readOnly /\ b.version = 2

\* the history rows of block b, as indices
RowsOf(b) == {k \in DOMAIN memory_block_history : memory_block_history[k].blockId = b.id}

C37_VersionPerCommittedUpdate ==
    [][/\ \A m \in Managers :
            (pc[m].at = "updateBlock.run" /\ pc'[m].at \notin {"updateBlock.run", "idle"})
               => \A b \in Stored(pc[m].label) :
                     \A a \in StoredAfter(pc[m].label) : a.version = b.version + 1
       /\ \A j, k \in DOMAIN memory_block_history' :
            (/\ memory_block_history'[j].blockId = memory_block_history'[k].blockId
             /\ memory_block_history'[j].version = memory_block_history'[k].version)
               => j = k
    ]_vars

\* C38: no Manager's cache holds two entries with the same label, whatever
\* the other Manager has deleted and created in between.
C38_CacheLabelsUnique ==
    \A m \in Managers :
        \A i, j \in 1..Len(memoryCache[m].blocks) :
            memoryCache[m].blocks[i].label = memoryCache[m].blocks[j].label => i = j

\* C39: a block created under a label, also one that was stored and deleted
\* before, has an id no block or history row had, version 1, and
\* getBlockHistory(label) returns exactly one row: the new block's, with
\* version 1 and the new initial value.
C39_CreateStartsAfresh ==
    [][(last'.op = "createBlock" /\ last'.outcome = "ok") =>
        LET new == Get(last'.block)
            h == DbGetBlockHistory(Db', "global", last'.label)
        IN  /\ new.id > uuids
            /\ \A b \in memory_blocks : b.id # new.id
            /\ \A k \in DOMAIN memory_block_history :
                  memory_block_history[k].blockId # new.id
            /\ new.version = 1
            /\ StoredAfter(last'.label) = {new}
            /\ Len(h) = 1
            /\ h[1].blockId = new.id
            /\ h[1].version = 1
            /\ h[1].value = new.value
    ]_vars

\* "a", stored from the start and updated since, has been deleted and
\* created again
C39_Witness ==
    /\ last.op = "createBlock"
    /\ last.outcome = "ok"
    /\ last.label = "a"
    /\ Get(last.block).id = 2
    /\ Get(last.block).createdAt = 2
    /\ Len(memory_block_history) = 1

\* C40: two memory_append calls on one block started together in one
\* process lose no update: when both have returned success the stored value
\* is the value from before with both contents appended, each on a line of
\* its own, in the order the calls ran, and the version has risen by 2.
C40_AppendsBothKept ==
    (\A c \in ToolCallIds :
        /\ toolCalls[c].at = "settled"
        /\ IsSuccess(toolCalls[c].result))
    => \A l \in {toolCalls[c].label : c \in ToolCallIds} :
         \A old \in toolCalls[1].before :
           \A new \in Stored(l) :
             /\ new.id = old.id
             /\ new.version = old.version + 2
             /\ \E c, d \in ToolCallIds :
                   /\ c # d
                   /\ new.value =
                        (IF old.value = <<>> THEN <<>> ELSE old.value \o <<NL>>)
                        \o toolCalls[c].content \o <<NL>> \o toolCalls[d].content
             /\ memoryCache[1].loaded => Find(memoryCache[1], l) = {new}

\* both calls have returned success, "y" having run before "x"
C40_Witness ==
    /\ \A c \in ToolCallIds :
          toolCalls[c].at = "settled" /\ IsSuccess(toolCalls[c].result)
    /\ \E b \in memory_blocks : b.value = <<"y", NL, "x">> /\ b.version = 3

====
